---- MODULE Spec2Model ----
(***************************************************************************)
(* Retry / error-classification core of the cover-letter generator:        *)
(*   - ErrorHandler.processError and its helpers   (utils/errorHandler.ts) *)
(*   - ErrorHandler.withRetry                      (utils/errorHandler.ts) *)
(*   - RetryService.executeWithRetry            (services/retryService.ts) *)
(*   - RetryManager                             (services/retryService.ts) *)
(*   - OpenAIService.generateCoverLetter       (services/openaiService.ts) *)
(*   - useErrorHandler                           (hooks/useErrorHandler.ts) *)
(*   - App.handleFormSubmit / handleRegenerate / handleRetry /            *)
(*     handleDownload                                            (App.tsx) *)
(*   - CoverLetterDisplay.handleDownload (components/CoverLetterDisplay.tsx)*)
(*                                                                         *)
(* JavaScript values are records.  An object carries a "proto" field (its  *)
(* class: "Object", "Error", "EnhancedError") and one field per own        *)
(* property; a primitive carries a "prim" field.  A property whose value   *)
(* is undefined is represented like an absent property: the code reads     *)
(* optional properties only through `.code`, `.details`, `.statusCode` and *)
(* `.error`, which cannot tell the two apart.  Strings are sequences of    *)
(* word tokens and String.prototype.includes is contiguous containment.    *)
(* Numbers that the backoff formula produces are exact rationals; the      *)
(* multipliers used (1, 3/2, 2) are dyadic, so IEEE doubles are exact too. *)
(*                                                                         *)
(* The wrapped operation and the timers are the environment: an invocation *)
(* settles with any value of OperationValues or any failure of             *)
(* OperationFailures, in its own step.  The callbacks onRetry and          *)
(* onMaxAttemptsReached are observers of their declared type               *)
(* (...) => void: a call is recorded with its arguments and returns.  The  *)
(* onRetry of a RetryManager is the caller's UI code and may also throw.   *)
(*                                                                         *)
(* The App is modelled between the awaits of the OpenAI client: a handler  *)
(* runs up to its await in one step, and the client's completion or        *)
(* failure is a step of the environment that runs the rest of the handler. *)
(***************************************************************************)
EXTENDS Integers, Sequences, FiniteSets, TLC

(***************************************************************************)
(* Bounds of the model.                                                    *)
(***************************************************************************)
\* largest maxAttempts a caller passes
MaxAttemptsBound == 4
\* method calls (execute / retry / reset) issued on one RetryManager
MaxMethodCalls == 4
\* operation invocations of one RetryManager that may be unsettled at once
MaxInFlight == 2
\* user actions (submit, retry, dismiss) on the App in one run
MaxUserActions == 4

(***************************************************************************)
(* JavaScript values.                                                      *)
(***************************************************************************)
Null == [prim |-> "null"]
Undefined == [prim |-> "undefined"]

IsObject(v) == "proto" \in DOMAIN v

\* the value of an optional property, as a set with at most one element
Opt(o, k) == IF k \in DOMAIN o THEN {o[k]} ELSE {}

\* object o with property k set when opt holds a value
WithOpt(o, k, opt) == IF opt = {} THEN o ELSE (k :> (CHOOSE v \in opt : TRUE)) @@ o

\* String.prototype.includes on token sequences
Includes(s, p) ==
    \E i \in 1..(Len(s) - Len(p) + 1) : SubSeq(s, i, i + Len(p) - 1) = p

\* String(value)
String(v) ==
    IF IsObject(v)
    THEN IF v.proto = "Object" THEN <<"[object Object]">>
         ELSE <<v.name, ":">> \o v.message
    ELSE IF v.prim = "string" THEN v.str
    ELSE IF v.prim = "number" THEN <<ToString(v.num)>>
    ELSE <<v.prim>>

(***************************************************************************)
(* types: ErrorType, AppError                                              *)
(***************************************************************************)
ErrorType ==
    {"API_KEY_MISSING", "API_KEY_INVALID", "NETWORK_ERROR", "API_RATE_LIMIT",
     "API_CONTENT_POLICY", "API_GENERAL_ERROR", "PDF_GENERATION_ERROR",
     "VALIDATION_ERROR", "UNKNOWN_ERROR"}

\* an AppError object literal {type, message, code?, details?, retryable}
AppError(type, message, code, details, retryable) ==
    WithOpt(WithOpt([proto |-> "Object", type |-> type, message |-> message,
                     retryable |-> retryable],
                    "code", code),
            "details", details)

(***************************************************************************)
(* utils/errorHandler.ts                                                   *)
(***************************************************************************)
DefaultMaxAttempts == 3
DefaultBaseDelay == 1000
DefaultBackoffMultiplier == [num |-> 2, den |-> 1]
DefaultRetryableErrors ==
    {"NETWORK_ERROR", "API_RATE_LIMIT", "API_GENERAL_ERROR", "UNKNOWN_ERROR"}

\* new EnhancedError(appError)   (the timestamp is not modelled: nothing reads it)
EnhancedError(appError) ==
    WithOpt(WithOpt([proto |-> "EnhancedError", name |-> "EnhancedError",
                     message |-> appError.message, type |-> appError.type,
                     retryable |-> appError.retryable],
                    "code", Opt(appError, "code")),
            "details", Opt(appError, "details"))

\* faulty variant: toAppError without the details
toAppError_DropsDetails(this) ==
    AppError(this.type, this.message, Opt(this, "code"), {}, this.retryable)

\* EnhancedError.prototype.toAppError
toAppError(this) ==
    AppError(this.type, this.message, Opt(this, "code"), Opt(this, "details"),
             this.retryable)

\* error instanceof Error
InstanceOfError(v) == IsObject(v) /\ v.proto \in {"Error", "EnhancedError"}

\* error instanceof EnhancedError
InstanceOfEnhancedError(v) == IsObject(v) /\ v.proto = "EnhancedError"

isAppError(error) ==
    /\ IsObject(error)
    /\ "type" \in DOMAIN error
    /\ "message" \in DOMAIN error
    /\ "retryable" \in DOMAIN error

isApiResponse(error) ==
    /\ IsObject(error)
    /\ "success" \in DOMAIN error

\* statusCode || 500
StatusCodeOr500(response) ==
    IF Opt(response, "statusCode") \in {{}, {0}} THEN 500 ELSE response.statusCode

processApiResponseError(response) ==
    LET statusCode == Opt(response, "statusCode")
        message == IF Opt(response, "error") \in {{}, {<<>>}}
                   THEN <<"Unknown", "API", "error">>
                   ELSE response.error
        \* the switch: <<errorType, retryable>>, retryable starting out false
        switch ==
            CASE statusCode = {401} ->
                     <<IF Includes(message, <<"API", "key">>)
                       THEN "API_KEY_INVALID" ELSE "API_KEY_MISSING", FALSE>>
              [] statusCode = {429} -> <<"API_RATE_LIMIT", TRUE>>
              [] statusCode = {400} ->
                     <<IF Includes(message, <<"content", "policy">>)
                       THEN "API_CONTENT_POLICY" ELSE "VALIDATION_ERROR", FALSE>>
              [] statusCode \in {{0}, {408}} -> <<"NETWORK_ERROR", TRUE>>
              [] OTHER -> <<"API_GENERAL_ERROR", TRUE>>
    IN  AppError(switch[1], message, {StatusCodeOr500(response)}, {}, switch[2])

processJavaScriptError(error) ==
    IF Includes(error.message, <<"fetch">>) \/ Includes(error.message, <<"network">>)
    THEN AppError("NETWORK_ERROR", <<"Network", "connection", "failed">>, {},
                  {error.message}, TRUE)
    ELSE IF Includes(error.message, <<"validation">>)
            \/ Includes(error.message, <<"required">>)
    THEN AppError("VALIDATION_ERROR", error.message, {}, {}, FALSE)
    ELSE AppError("UNKNOWN_ERROR",
                  IF error.message = <<>>
                  THEN <<"An", "unexpected", "error", "occurred">>
                  ELSE error.message,
                  {}, Opt(error, "stack"), TRUE)

processError(error) ==
    IF InstanceOfEnhancedError(error) THEN toAppError(error)
    ELSE IF isAppError(error) THEN error
    ELSE IF isApiResponse(error) /\ ~error.success THEN processApiResponseError(error)
    ELSE IF InstanceOfError(error) THEN processJavaScriptError(error)
    ELSE AppError("UNKNOWN_ERROR", <<"An", "unexpected", "error", "occurred">>,
                  {}, {String(error)}, TRUE)

(***************************************************************************)
(* Numbers of the backoff formula: exact rationals in lowest terms.        *)
(***************************************************************************)
RECURSIVE GCD(_, _)
GCD(a, b) == IF b = 0 THEN a ELSE GCD(b, a % b)

Rat(n, d) == LET g == GCD(n, d) IN IF g = 0 THEN [num |-> 0, den |-> 1]
                                   ELSE [num |-> n \div g, den |-> d \div g]

Num(n) == Rat(n, 1)

RECURSIVE IntPow(_, _)
IntPow(b, e) == IF e = 0 THEN 1 ELSE b * IntPow(b, e - 1)

\* Math.pow(base, exponent) for a positive rational base and an integer exponent
MathPow(base, exponent) ==
    IF exponent >= 0
    THEN Rat(IntPow(base.num, exponent), IntPow(base.den, exponent))
    ELSE Rat(IntPow(base.den, 0 - exponent), IntPow(base.num, 0 - exponent))

RatTimes(n, r) == Rat(n * r.num, r.den)

(***************************************************************************)
(* What the environment supplies: the caller's options and the results of  *)
(* the wrapped operation.                                                  *)
(***************************************************************************)
EmptyOptions == [proto |-> "Object"]

\* the values a wrapped operation resolves with
OperationValues == {"success", "letter"}

NetworkFailed == AppError("NETWORK_ERROR", <<"Network", "failed">>, {}, {}, TRUE)
InvalidApiKey == AppError("API_KEY_INVALID", <<"Invalid", "API", "key">>, {}, {}, FALSE)

\* the values a wrapped operation rejects with: AppError literals, a nested
\* EnhancedError, ApiResponse objects, native Errors and a thrown string
OperationFailures ==
    { NetworkFailed,
      InvalidApiKey,
      AppError("UNKNOWN_ERROR", <<"boom">>, {}, {}, FALSE),
      EnhancedError(AppError("PDF_GENERATION_ERROR", <<"PDF", "failed">>, {},
                             {<<"stack">>}, TRUE)),
      [proto |-> "Object", success |-> FALSE, error |-> <<"Rate", "limit">>,
       statusCode |-> 429],
      [proto |-> "Object", success |-> FALSE, error |-> <<"Invalid", "API", "key">>,
       statusCode |-> 401],
      [proto |-> "Error", name |-> "Error", message |-> <<"network", "error">>,
       stack |-> <<"stack">>],
      [proto |-> "Error", name |-> "Error", message |-> <<"validation", "failed">>,
       stack |-> <<"stack">>],
      [prim |-> "string", str |-> <<"string", "error">>] }

\* the failures used for the operation a RetryManager wraps
ManagerFailures ==
    { NetworkFailed,
      InvalidApiKey,
      [proto |-> "Object", success |-> FALSE, error |-> <<"Rate", "limit">>,
       statusCode |-> 429],
      [proto |-> "Error", name |-> "Error", message |-> <<"validation", "failed">>,
       stack |-> <<"stack">>] }

\* the numeric and list options a caller passes (each key may be left out)
PolicyChoices ==
    { EmptyOptions,
      [proto |-> "Object", baseDelay |-> 500,
       backoffMultiplier |-> [num |-> 3, den |-> 2]],
      [proto |-> "Object", baseDelay |-> 0, backoffMultiplier |-> [num |-> 1, den |-> 1]],
      [proto |-> "Object", retryableErrors |-> {"API_RATE_LIMIT"}] }

MaxAttemptsChoices ==
    {EmptyOptions} \cup {[proto |-> "Object", maxAttempts |-> n] : n \in 1..MaxAttemptsBound}

CallbackChoices ==
    { EmptyOptions,
      [proto |-> "Object", onRetry |-> "onRetry",
       onMaxAttemptsReached |-> "onMaxAttemptsReached"] }

\* RetryOptions objects
RetryOptions ==
    { c @@ m @@ p : c \in CallbackChoices, m \in MaxAttemptsChoices, p \in PolicyChoices }

\* the RetryOptions objects a RetryManager is constructed with: every
\* maxAttempts with the default policy, each other policy with maxAttempts 2,
\* and no options at all
ManagerOptionChoices ==
    {EmptyOptions}
    \cup { c @@ m : c \in CallbackChoices \ {EmptyOptions},
                   m \in MaxAttemptsChoices \ {EmptyOptions} }
    \cup { c @@ [proto |-> "Object", maxAttempts |-> 2] @@ p :
              c \in CallbackChoices \ {EmptyOptions},
              p \in PolicyChoices \ {EmptyOptions} }

\* Partial<RetryConfig> objects (ErrorHandler's constructor argument)
RetryConfigs == { m @@ p : m \in MaxAttemptsChoices, p \in PolicyChoices }

VARIABLES
    component,      \* which entry point the caller drives in this run
    options,        \* the options object the caller passed
    config,         \* executeWithRetry: config;  ErrorHandler: this.retryConfig
    pc,             \* where the async function is suspended
    attempt,        \* the loop variable
    lastError,      \* the local lastError
    invocations,    \* how many times operation() has been called
    opLog,          \* per settled invocation: what it threw and how it was classified
    delays,         \* the arguments of this.delay(ms), in call order
    onRetryLog,     \* the arguments of options.onRetry, in call order
    onMaxLog,       \* the arguments of options.onMaxAttemptsReached, in call order
    outcome,        \* how the returned promise settled
    managerOptions, \* RetryManager: this.options
    retryCallbacks, \* RetryManager: this.retryCallbacks
    state,          \* RetryManager: this.state
    inFlight,       \* RetryManager: the execute()/retry() calls awaiting this.operation()
    methodCalls,    \* RetryManager: how many execute()/retry()/reset() calls were made
    settled,        \* RetryManager: the promise of execute()/retry() that settled last
    slotInvocations,\* RetryManager: operation() calls since the last execute()/reset()
    countdown,      \* RetryManager: the getRetryCountdown() in progress, if any
    input,          \* processError: the value it is called with
    result,         \* processError: the AppError it returned or the error it threw
    reclassified,   \* processError: what a second call, on that AppError, returned
    openaiService,  \* OpenAIService: the singleton's apiKey and client
    hook,           \* useErrorHandler: error, isRetrying, retryCount and the two refs
    appState,       \* App: the form fields, generatedLetters (newest first), the flags
    awaiting,       \* App: the caller suspended on the client's request, or null
    calls,          \* App: how often the handlers and the client ran, the last formData
    apiResponse,    \* OpenAIService: the ApiResponse generateCoverLetter returned last
    display         \* CoverLetterDisplay: isDownloading and the onDownload calls not yet settled

engineVars == <<config, pc, attempt, lastError, opLog, delays, outcome>>

managerVars ==
    <<managerOptions, retryCallbacks, countdown, state, inFlight, methodCalls, settled,
      slotInvocations>>

classifierVars == <<input, result, reclassified>>

appVars == <<openaiService, hook, appState, awaiting, calls, apiResponse, display>>

vars ==
    <<component, options, invocations, onRetryLog, onMaxLog, engineVars, managerVars,
      classifierVars, appVars>>

\* no getRetryCountdown() has been called
NoCountdown == [status |-> "idle"]

\* CoverLetterDisplay is not rendered
NoDisplay == [isDownloading |-> FALSE]

Pending == [status |-> "pending"]
Resolved(v) == [status |-> "resolved", value |-> v]
Rejected(e) == [status |-> "rejected", error |-> e]

\* reading a property of null throws a TypeError
NullTypeError ==
    [proto |-> "Error", name |-> "TypeError",
     message |-> <<"Cannot", "read", "properties", "of", "null">>]

(***************************************************************************)
(* services/retryService.ts: RetryService                                  *)
(***************************************************************************)
defaultOptions ==
    [proto |-> "Object", maxAttempts |-> DefaultMaxAttempts,
     baseDelay |-> DefaultBaseDelay, backoffMultiplier |-> DefaultBackoffMultiplier,
     retryableErrors |-> DefaultRetryableErrors]

\* faulty variant: the kind list is ignored
isRetryableError_FlagOnly(error, retryableErrors) == error.retryable

isRetryableError(error, retryableErrors) ==
    error.retryable /\ error.type \in retryableErrors

\* faulty variant: the exponent is the attempt number, not attempt - 1
calculateDelay_ExponentAttempt(attemptNumber, baseDelay, backoffMultiplier) ==
    RatTimes(baseDelay, MathPow(backoffMultiplier, attemptNumber))

calculateDelay(attemptNumber, baseDelay, backoffMultiplier) ==
    RatTimes(baseDelay, MathPow(backoffMultiplier, attemptNumber - 1))

\* faulty variant: the exhaustion test never succeeds inside the loop
AttemptsExhausted_PastLast(attemptNumber, cfg) == attemptNumber > cfg.maxAttempts

\* attempt === config.maxAttempts
AttemptsExhausted(attemptNumber, cfg) == attemptNumber = cfg.maxAttempts

\* faulty variant: onRetry is passed the number of the attempt about to run
CallOnRetry_NextAttempt(opts, attemptNumber, error) ==
    IF "onRetry" \in DOMAIN opts
    THEN Append(onRetryLog, <<attemptNumber + 1, error>>)
    ELSE onRetryLog

\* options.onRetry?.(attempt, processedError)
CallOnRetry(opts, attemptNumber, error) ==
    IF "onRetry" \in DOMAIN opts
    THEN Append(onRetryLog, <<attemptNumber, error>>)
    ELSE onRetryLog

\* options.onMaxAttemptsReached?.(processedError)
CallOnMaxAttemptsReached(opts, error) ==
    IF "onMaxAttemptsReached" \in DOMAIN opts
    THEN Append(onMaxLog, error)
    ELSE onMaxLog

\* faulty variant: the loop runs while attempt < config.maxAttempts
ExecuteWithRetryLoop_StrictBound(nextAttempt, cfg, last) ==
    /\ attempt' = nextAttempt
    /\ IF nextAttempt < cfg.maxAttempts
       THEN /\ invocations' = invocations + 1
            /\ pc' = "awaitOperation"
            /\ outcome' = outcome
       ELSE /\ invocations' = invocations
            /\ pc' = "settled"
            /\ outcome' = IF last = Null THEN Rejected(NullTypeError)
                          ELSE Rejected(EnhancedError(last))

\* the head of `for (...; attempt <= config.maxAttempts; ...)`: the next
\* invocation, or the throw that follows the loop
ExecuteWithRetryLoop(nextAttempt, cfg, last) ==
    /\ attempt' = nextAttempt
    /\ IF nextAttempt <= cfg.maxAttempts
       THEN /\ invocations' = invocations + 1
            /\ pc' = "awaitOperation"
            /\ outcome' = outcome
       ELSE /\ invocations' = invocations
            /\ pc' = "settled"
            /\ outcome' = IF last = Null THEN Rejected(NullTypeError)
                          ELSE Rejected(EnhancedError(last))

ExecuteWithRetryCall ==
    /\ component = "RetryService"
    /\ pc = "idle"
    /\ config' = options @@ defaultOptions
    /\ lastError' = Null
    /\ ExecuteWithRetryLoop(1, options @@ defaultOptions, Null)
    /\ UNCHANGED <<appVars, classifierVars, managerVars, component, options, opLog, delays,
                   onRetryLog, onMaxLog>>

ExecuteWithRetryResolved ==
    /\ component = "RetryService"
    /\ pc = "awaitOperation"
    /\ \E value \in OperationValues :
          /\ opLog' = Append(opLog, [ok |-> TRUE, value |-> value])
          /\ outcome' = Resolved(value)
    /\ pc' = "settled"
    /\ UNCHANGED <<appVars, classifierVars, managerVars, component, options, config, attempt,
                   lastError, invocations, delays, onRetryLog, onMaxLog>>

\* faulty variant: the sleep is requested but not awaited
ExecuteWithRetryRejected_NoSleep ==
    /\ component = "RetryService"
    /\ pc = "awaitOperation"
    /\ \E error \in OperationFailures :
          LET processedError == processError(error) IN
          /\ opLog' = Append(opLog, [ok |-> FALSE, thrown |-> error,
                                     processed |-> processedError])
          /\ lastError' = processedError
          /\ IF ~isRetryableError(processedError, config.retryableErrors)
             THEN /\ outcome' = Rejected(EnhancedError(processedError))
                  /\ pc' = "settled"
                  /\ UNCHANGED <<delays, onRetryLog, onMaxLog, attempt, invocations>>
             ELSE IF AttemptsExhausted(attempt, config)
             THEN /\ onMaxLog' = CallOnMaxAttemptsReached(options, processedError)
                  /\ outcome' = Rejected(EnhancedError(processedError))
                  /\ pc' = "settled"
                  /\ UNCHANGED <<delays, onRetryLog, attempt, invocations>>
             ELSE /\ onRetryLog' = CallOnRetry(options, attempt, processedError)
                  /\ delays' = Append(delays,
                                      calculateDelay(attempt, config.baseDelay,
                                                     config.backoffMultiplier))
                  /\ attempt' = attempt + 1
                  /\ invocations' = invocations + 1
                  /\ pc' = "awaitOperation"
                  /\ UNCHANGED <<onMaxLog, outcome>>
    /\ UNCHANGED <<appVars, classifierVars, managerVars, component, options, config>>

ExecuteWithRetryRejected ==
    /\ component = "RetryService"
    /\ pc = "awaitOperation"
    /\ \E error \in OperationFailures :
          LET processedError == processError(error) IN
          /\ opLog' = Append(opLog, [ok |-> FALSE, thrown |-> error,
                                     processed |-> processedError])
          /\ lastError' = processedError
          /\ IF ~isRetryableError(processedError, config.retryableErrors)
             THEN /\ outcome' = Rejected(EnhancedError(processedError))
                  /\ pc' = "settled"
                  /\ UNCHANGED <<delays, onRetryLog, onMaxLog>>
             ELSE IF AttemptsExhausted(attempt, config)
             THEN /\ onMaxLog' = CallOnMaxAttemptsReached(options, processedError)
                  /\ outcome' = Rejected(EnhancedError(processedError))
                  /\ pc' = "settled"
                  /\ UNCHANGED <<delays, onRetryLog>>
             ELSE /\ onRetryLog' = CallOnRetry(options, attempt, processedError)
                  /\ delays' = Append(delays,
                                      calculateDelay(attempt, config.baseDelay,
                                                     config.backoffMultiplier))
                  /\ pc' = "awaitDelay"
                  /\ UNCHANGED <<onMaxLog, outcome>>
    /\ UNCHANGED <<appVars, classifierVars, managerVars, component, options, config, attempt,
                   invocations>>

\* faulty variant: the loop variable is not advanced after the sleep
ExecuteWithRetryDelayElapsed_SameAttempt ==
    /\ component = "RetryService"
    /\ pc = "awaitDelay"
    /\ ExecuteWithRetryLoop(attempt, config, lastError)
    /\ UNCHANGED <<appVars, classifierVars, managerVars, component, options, config,
                   lastError, opLog, delays, onRetryLog, onMaxLog>>

ExecuteWithRetryDelayElapsed ==
    /\ component = "RetryService"
    /\ pc = "awaitDelay"
    /\ ExecuteWithRetryLoop(attempt + 1, config, lastError)
    /\ UNCHANGED <<appVars, classifierVars, managerVars, component, options, config, lastError,
                   opLog, delays, onRetryLog, onMaxLog>>

EngineNext ==
    \/ ExecuteWithRetryCall
    \/ ExecuteWithRetryResolved
    \/ ExecuteWithRetryRejected
    \/ ExecuteWithRetryDelayElapsed

EngineInit ==
    /\ component = "RetryService"
    /\ options \in RetryOptions
    /\ config = Null
    /\ pc = "idle"
    /\ attempt = 0
    /\ lastError = Null
    /\ invocations = 0
    /\ opLog = <<>>
    /\ delays = <<>>
    /\ onRetryLog = <<>>
    /\ onMaxLog = <<>>
    /\ outcome = Pending
    /\ managerOptions = Null
    /\ retryCallbacks = Null
    /\ state = Null
    /\ inFlight = {}
    /\ methodCalls = 0
    /\ settled = Pending
    /\ slotInvocations = 0
    /\ countdown = NoCountdown
    /\ display = NoDisplay
    /\ input = Null
    /\ result = Pending
    /\ reclassified = Pending
    /\ openaiService = Null
    /\ hook = Null
    /\ appState = Null
    /\ awaiting = Null
    /\ calls = Null
    /\ apiResponse = Null

EngineSpec == EngineInit /\ [][EngineNext]_vars

\* every invocation of the operation settles and every sleep completes
EngineLiveSpec ==
    /\ EngineSpec
    /\ WF_vars(ExecuteWithRetryResolved \/ ExecuteWithRetryRejected)
    /\ WF_vars(ExecuteWithRetryDelayElapsed)

\* executeWithRetry(operation, config) as a function of how the successive
\* invocations of operation settle, for a caller that passes no callbacks:
\* the loop from `attempt`, with the local lastError and the sleeps made so
\* far.  The call is suspended (outcome pending) once `outcomes` is used up.
RECURSIVE ExecuteWithRetryFrom(_, _, _, _, _)
ExecuteWithRetryFrom(cfg, outcomes, attemptNumber, last, slept) ==
    IF attemptNumber > cfg.maxAttempts
    THEN [invocations |-> attemptNumber - 1, delays |-> slept,
          outcome |-> IF last = Null THEN Rejected(NullTypeError)
                      ELSE Rejected(EnhancedError(last))]
    ELSE IF Len(outcomes) < attemptNumber
    THEN [invocations |-> attemptNumber, delays |-> slept, outcome |-> Pending]
    ELSE IF outcomes[attemptNumber].ok
    THEN [invocations |-> attemptNumber, delays |-> slept,
          outcome |-> Resolved(outcomes[attemptNumber].value)]
    ELSE LET processedError == processError(outcomes[attemptNumber].thrown) IN
         IF \/ ~isRetryableError(processedError, cfg.retryableErrors)
            \/ AttemptsExhausted(attemptNumber, cfg)
         THEN [invocations |-> attemptNumber, delays |-> slept,
               outcome |-> Rejected(EnhancedError(processedError))]
         ELSE ExecuteWithRetryFrom(
                  cfg, outcomes, attemptNumber + 1, processedError,
                  Append(slept, calculateDelay(attemptNumber, cfg.baseDelay,
                                               cfg.backoffMultiplier)))

(***************************************************************************)
(* utils/errorHandler.ts: ErrorHandler.withRetry                           *)
(***************************************************************************)
DEFAULT_RETRY_CONFIG ==
    [proto |-> "Object", maxAttempts |-> DefaultMaxAttempts,
     baseDelay |-> DefaultBaseDelay, backoffMultiplier |-> DefaultBackoffMultiplier,
     retryableErrors |-> DefaultRetryableErrors]

\* faulty variant: the error's own retryable flag is ignored
isRetryable_KindOnly(error, retryConfig) ==
    error.type \in retryConfig.retryableErrors

\* ErrorHandler.isRetryable
isRetryable(error, retryConfig) ==
    error.retryable /\ error.type \in retryConfig.retryableErrors

\* ErrorHandler.calculateRetryDelay
calculateRetryDelay(attemptNumber, retryConfig) ==
    RatTimes(retryConfig.baseDelay,
             MathPow(retryConfig.backoffMultiplier, attemptNumber - 1))

\* faulty variant: the classified error itself is thrown, unwrapped
WithRetryThrow_Unwrapped(last) == Rejected(last)

\* `throw new EnhancedError(lastError!)` after the loop
WithRetryThrow(last) ==
    IF last = Null THEN Rejected(NullTypeError) ELSE Rejected(EnhancedError(last))

\* the head of `for (...; attempt <= this.retryConfig.maxAttempts; ...)`
WithRetryLoop(nextAttempt, cfg, last) ==
    /\ attempt' = nextAttempt
    /\ IF nextAttempt <= cfg.maxAttempts
       THEN /\ invocations' = invocations + 1
            /\ pc' = "awaitOperation"
            /\ outcome' = outcome
       ELSE /\ invocations' = invocations
            /\ pc' = "settled"
            /\ outcome' = WithRetryThrow(last)

WithRetryCall ==
    /\ component = "ErrorHandler"
    /\ pc = "idle"
    /\ lastError' = Null
    /\ WithRetryLoop(1, config, Null)
    /\ UNCHANGED <<appVars, classifierVars, managerVars, component, options, config, opLog,
                   delays, onRetryLog, onMaxLog>>

WithRetryResolved ==
    /\ component = "ErrorHandler"
    /\ pc = "awaitOperation"
    /\ \E value \in OperationValues :
          /\ opLog' = Append(opLog, [ok |-> TRUE, value |-> value])
          /\ outcome' = Resolved(value)
    /\ pc' = "settled"
    /\ UNCHANGED <<appVars, classifierVars, managerVars, component, options, config, attempt,
                   lastError, invocations, delays, onRetryLog, onMaxLog>>

WithRetryRejected ==
    /\ component = "ErrorHandler"
    /\ pc = "awaitOperation"
    /\ \E error \in OperationFailures :
          LET processedError == processError(error) IN
          /\ opLog' = Append(opLog, [ok |-> FALSE, thrown |-> error,
                                     processed |-> processedError])
          /\ lastError' = processedError
          /\ IF ~isRetryable(processedError, config) \/ attempt = config.maxAttempts
             THEN /\ outcome' = WithRetryThrow(processedError)
                  /\ pc' = "settled"
                  /\ UNCHANGED delays
             ELSE /\ delays' = Append(delays, calculateRetryDelay(attempt, config))
                  /\ pc' = "awaitDelay"
                  /\ UNCHANGED outcome
    /\ UNCHANGED <<appVars, classifierVars, managerVars, component, options, config, attempt,
                   invocations, onRetryLog, onMaxLog>>

WithRetryDelayElapsed ==
    /\ component = "ErrorHandler"
    /\ pc = "awaitDelay"
    /\ WithRetryLoop(attempt + 1, config, lastError)
    /\ UNCHANGED <<appVars, classifierVars, managerVars, component, options, config, lastError,
                   opLog, delays, onRetryLog, onMaxLog>>

HandlerNext ==
    \/ WithRetryCall
    \/ WithRetryResolved
    \/ WithRetryRejected
    \/ WithRetryDelayElapsed

\* new ErrorHandler(retryConfig): this.retryConfig = {...DEFAULT_RETRY_CONFIG, ...retryConfig}
HandlerInit ==
    /\ component = "ErrorHandler"
    /\ options \in RetryConfigs
    /\ config = options @@ DEFAULT_RETRY_CONFIG
    /\ pc = "idle"
    /\ attempt = 0
    /\ lastError = Null
    /\ invocations = 0
    /\ opLog = <<>>
    /\ delays = <<>>
    /\ onRetryLog = <<>>
    /\ onMaxLog = <<>>
    /\ outcome = Pending
    /\ managerOptions = Null
    /\ retryCallbacks = Null
    /\ state = Null
    /\ inFlight = {}
    /\ methodCalls = 0
    /\ settled = Pending
    /\ slotInvocations = 0
    /\ countdown = NoCountdown
    /\ display = NoDisplay
    /\ input = Null
    /\ result = Pending
    /\ reclassified = Pending
    /\ openaiService = Null
    /\ hook = Null
    /\ appState = Null
    /\ awaiting = Null
    /\ calls = Null
    /\ apiResponse = Null

HandlerSpec == HandlerInit /\ [][HandlerNext]_vars

\* either stateless engine, driven on its own
EnginesSpec == (EngineInit \/ HandlerInit) /\ [][EngineNext \/ HandlerNext]_vars

(***************************************************************************)
(* services/retryService.ts: RetryManager                                  *)
(***************************************************************************)
\* value || fallback, for a numeric or rational option
OrDefault(opt, falsy, fallback) ==
    IF opt = {} \/ opt = {falsy} THEN fallback ELSE CHOOSE v \in opt : TRUE

\* the constructor's this.options
ConstructorOptions(opts) ==
    [maxAttempts |-> OrDefault(Opt(opts, "maxAttempts"), 0, DefaultMaxAttempts),
     baseDelay |-> OrDefault(Opt(opts, "baseDelay"), 0, DefaultBaseDelay),
     backoffMultiplier |-> OrDefault(Opt(opts, "backoffMultiplier"),
                                     [num |-> 0, den |-> 1], DefaultBackoffMultiplier),
     retryableErrors |-> IF "retryableErrors" \in DOMAIN opts
                         THEN opts.retryableErrors ELSE DefaultRetryableErrors]

\* the constructor's this.retryCallbacks
ConstructorCallbacks(opts) ==
    WithOpt(WithOpt([proto |-> "Object"], "onRetry", Opt(opts, "onRetry")),
            "onMaxAttemptsReached", Opt(opts, "onMaxAttemptsReached"))

\* the state object the constructor and reset() build
InitialState(thisOptions) ==
    [attempt |-> 0,
     maxAttempts |-> thisOptions.maxAttempts,
     lastError |-> Null,
     isRetrying |-> FALSE,
     nextRetryDelay |-> Num(thisOptions.baseDelay)]

\* faulty variant: the policy's kind list is not consulted
ManagerIsRetryableError_FlagOnly(error) == error.retryable

\* RetryManager.isRetryableError
ManagerIsRetryableError(error) ==
    error.retryable /\ error.type \in managerOptions.retryableErrors

\* RetryManager.calculateDelay
ManagerCalculateDelay(attemptNumber) ==
    RatTimes(managerOptions.baseDelay,
             MathPow(managerOptions.backoffMultiplier, attemptNumber - 1))

\* faulty variant: the bound on attempt is off by one
canRetry_AttemptAtMost ==
    /\ state.lastError # Null
    /\ state.attempt <= state.maxAttempts
    /\ ManagerIsRetryableError(state.lastError)
    /\ ~state.isRetrying

\* faulty variant: a retry in progress does not block another one
canRetry_IgnoresIsRetrying ==
    /\ state.lastError # Null
    /\ state.attempt < state.maxAttempts
    /\ ManagerIsRetryableError(state.lastError)

canRetry ==
    /\ state.lastError # Null
    /\ state.attempt < state.maxAttempts
    /\ ManagerIsRetryableError(state.lastError)
    /\ ~state.isRetrying

\* getState(): a shallow copy of this.state
getState == [k \in DOMAIN state |-> state[k]]

CannotRetryError ==
    [proto |-> "Error", name |-> "Error",
     message |-> <<"Cannot", "retry:", "operation", "is", "not", "retryable",
                   "or", "max", "attempts", "reached">>]

\* the callers of a RetryManager: one that calls execute(), retry() and
\* reset() only, and a view that also shows the countdown to the next retry
RetryManagerCallers == {"RetryManager", "RetryCountdown"}

\* the call record of the next execute()/retry()
NextCall(method) == [id |-> methodCalls + 1, method |-> method]

execute ==
    /\ component \in RetryManagerCallers
    /\ methodCalls < MaxMethodCalls
    /\ Cardinality(inFlight) < MaxInFlight
    /\ state' = [state EXCEPT !.attempt = 1, !.isRetrying = FALSE, !.lastError = Null]
    /\ invocations' = invocations + 1
    /\ slotInvocations' = 1
    /\ inFlight' = inFlight \cup {NextCall("execute")}
    /\ methodCalls' = methodCalls + 1
    /\ UNCHANGED <<appVars, classifierVars, component, options, onRetryLog, onMaxLog, engineVars,
                   managerOptions, retryCallbacks, countdown, settled>>

executeResolved ==
    /\ component \in RetryManagerCallers
    /\ \E call \in inFlight, value \in OperationValues :
          /\ call.method = "execute"
          /\ inFlight' = inFlight \ {call}
          /\ settled' = [status |-> "resolved", id |-> call.id, method |-> "execute",
                         value |-> value]
    /\ UNCHANGED <<appVars, classifierVars, component, options, invocations, slotInvocations, onRetryLog,
                   onMaxLog, engineVars, managerOptions, retryCallbacks, countdown, state,
                   methodCalls>>

\* faulty variant: a failed execute() reports exhaustion the way retry() does
executeRejected_SignalsExhaustion ==
    /\ component \in RetryManagerCallers
    /\ \E call \in inFlight, error \in ManagerFailures :
          LET processedError == processError(error) IN
          /\ call.method = "execute"
          /\ inFlight' = inFlight \ {call}
          /\ state' = [state EXCEPT !.lastError = processedError]
          /\ onMaxLog' = IF state.attempt >= state.maxAttempts
                         THEN CallOnMaxAttemptsReached(retryCallbacks, processedError)
                         ELSE onMaxLog
          /\ settled' = [status |-> "rejected", id |-> call.id, method |-> "execute",
                         cause |-> "operation", thrown |-> error,
                         error |-> EnhancedError(processedError)]
    /\ UNCHANGED <<appVars, classifierVars, component, options, invocations, slotInvocations, onRetryLog,
                   engineVars, managerOptions, retryCallbacks, countdown, methodCalls>>

executeRejected ==
    /\ component \in RetryManagerCallers
    /\ \E call \in inFlight, error \in ManagerFailures :
          LET processedError == processError(error) IN
          /\ call.method = "execute"
          /\ inFlight' = inFlight \ {call}
          /\ state' = [state EXCEPT !.lastError = processedError]
          /\ settled' = [status |-> "rejected", id |-> call.id, method |-> "execute",
                         cause |-> "operation", thrown |-> error,
                         error |-> EnhancedError(processedError)]
    /\ UNCHANGED <<appVars, classifierVars, component, options, invocations, slotInvocations, onRetryLog,
                   onMaxLog, engineVars, managerOptions, retryCallbacks, countdown, methodCalls>>

\* what a throwing onRetry callback throws
CallbackError ==
    [proto |-> "Error", name |-> "Error", message |-> <<"onRetry", "failed">>]

\* how a call of this.retryCallbacks.onRetry?.(...) completes: the caller's
\* function returns or throws; there is nothing to call when it was left out
OnRetryCompletions ==
    IF "onRetry" \in DOMAIN retryCallbacks THEN {"returns", "throws"} ELSE {"returns"}

\* faulty variant: onRetry is called before attempt is incremented
retry_OnRetryBeforeIncrement ==
    /\ component \in RetryManagerCallers
    /\ methodCalls < MaxMethodCalls
    /\ methodCalls' = methodCalls + 1
    /\ IF ~canRetry
       THEN /\ settled' = [status |-> "rejected", id |-> methodCalls + 1,
                           method |-> "retry", cause |-> "canRetry",
                           error |-> CannotRetryError]
            /\ UNCHANGED <<state, invocations, slotInvocations, inFlight, onRetryLog>>
       ELSE /\ Cardinality(inFlight) < MaxInFlight
            /\ state' = [state EXCEPT
                            !.attempt = state.attempt + 1,
                            !.isRetrying = TRUE,
                            !.nextRetryDelay = ManagerCalculateDelay(state.attempt + 1)]
            /\ onRetryLog' = CallOnRetry(retryCallbacks, state.attempt, state.lastError)
            /\ \E completion \in OnRetryCompletions :
                  IF completion = "throws"
                  THEN \* the throw leaves retry() before its try block
                       /\ settled' = [status |-> "rejected", id |-> methodCalls + 1,
                                      method |-> "retry", cause |-> "onRetry",
                                      error |-> CallbackError]
                       /\ UNCHANGED <<invocations, slotInvocations, inFlight>>
                  ELSE /\ invocations' = invocations + 1
                       /\ slotInvocations' = slotInvocations + 1
                       /\ inFlight' = inFlight \cup {NextCall("retry")}
                       /\ UNCHANGED settled
    /\ UNCHANGED <<appVars, classifierVars, component, options, onMaxLog, engineVars,
                   managerOptions, retryCallbacks, countdown>>

\* faulty variant: attempt is counted before canRetry() is consulted
retry_CountsRejectedCall ==
    /\ component \in RetryManagerCallers
    /\ methodCalls < MaxMethodCalls
    /\ methodCalls' = methodCalls + 1
    /\ IF ~canRetry
       THEN /\ settled' = [status |-> "rejected", id |-> methodCalls + 1,
                           method |-> "retry", cause |-> "canRetry",
                           error |-> CannotRetryError]
            /\ state' = [state EXCEPT !.attempt = state.attempt + 1]
            /\ UNCHANGED <<invocations, slotInvocations, inFlight, onRetryLog>>
       ELSE /\ Cardinality(inFlight) < MaxInFlight
            /\ state' = [state EXCEPT
                            !.attempt = state.attempt + 1,
                            !.isRetrying = TRUE,
                            !.nextRetryDelay = ManagerCalculateDelay(state.attempt + 1)]
            /\ onRetryLog' = CallOnRetry(retryCallbacks, state.attempt + 1,
                                         state.lastError)
            /\ \E completion \in OnRetryCompletions :
                  IF completion = "throws"
                  THEN /\ settled' = [status |-> "rejected", id |-> methodCalls + 1,
                                      method |-> "retry", cause |-> "onRetry",
                                      error |-> CallbackError]
                       /\ UNCHANGED <<invocations, slotInvocations, inFlight>>
                  ELSE /\ invocations' = invocations + 1
                       /\ slotInvocations' = slotInvocations + 1
                       /\ inFlight' = inFlight \cup {NextCall("retry")}
                       /\ UNCHANGED settled
    /\ UNCHANGED <<appVars, classifierVars, component, options, onMaxLog, engineVars,
                   managerOptions, retryCallbacks, countdown>>

retry ==
    /\ component \in RetryManagerCallers
    /\ methodCalls < MaxMethodCalls
    /\ methodCalls' = methodCalls + 1
    /\ IF ~canRetry
       THEN /\ settled' = [status |-> "rejected", id |-> methodCalls + 1,
                           method |-> "retry", cause |-> "canRetry",
                           error |-> CannotRetryError]
            /\ UNCHANGED <<state, invocations, slotInvocations, inFlight, onRetryLog>>
       ELSE /\ Cardinality(inFlight) < MaxInFlight
            /\ state' = [state EXCEPT
                            !.attempt = state.attempt + 1,
                            !.isRetrying = TRUE,
                            !.nextRetryDelay = ManagerCalculateDelay(state.attempt + 1)]
            /\ onRetryLog' = CallOnRetry(retryCallbacks, state.attempt + 1,
                                         state.lastError)
            /\ \E completion \in OnRetryCompletions :
                  IF completion = "throws"
                  THEN \* the throw leaves retry() before its try block
                       /\ settled' = [status |-> "rejected", id |-> methodCalls + 1,
                                      method |-> "retry", cause |-> "onRetry",
                                      error |-> CallbackError]
                       /\ UNCHANGED <<invocations, slotInvocations, inFlight>>
                  ELSE /\ invocations' = invocations + 1
                       /\ slotInvocations' = slotInvocations + 1
                       /\ inFlight' = inFlight \cup {NextCall("retry")}
                       /\ UNCHANGED settled
    /\ UNCHANGED <<appVars, classifierVars, component, options, onMaxLog, engineVars,
                   managerOptions, retryCallbacks, countdown>>

\* faulty variant: a successful retry keeps the error of the previous failure
retryResolved_KeepsLastError ==
    /\ component \in RetryManagerCallers
    /\ \E call \in inFlight, value \in OperationValues :
          /\ call.method = "retry"
          /\ inFlight' = inFlight \ {call}
          /\ state' = [state EXCEPT !.isRetrying = FALSE]
          /\ settled' = [status |-> "resolved", id |-> call.id, method |-> "retry",
                         value |-> value]
    /\ UNCHANGED <<appVars, classifierVars, component, options, invocations, slotInvocations, onRetryLog,
                   onMaxLog, engineVars, managerOptions, retryCallbacks, countdown, methodCalls>>

retryResolved ==
    /\ component \in RetryManagerCallers
    /\ \E call \in inFlight, value \in OperationValues :
          /\ call.method = "retry"
          /\ inFlight' = inFlight \ {call}
          /\ state' = [state EXCEPT !.isRetrying = FALSE, !.lastError = Null]
          /\ settled' = [status |-> "resolved", id |-> call.id, method |-> "retry",
                         value |-> value]
    /\ UNCHANGED <<appVars, classifierVars, component, options, invocations, slotInvocations, onRetryLog,
                   onMaxLog, engineVars, managerOptions, retryCallbacks, countdown, methodCalls>>

retryRejected ==
    /\ component \in RetryManagerCallers
    /\ \E call \in inFlight, error \in ManagerFailures :
          LET processedError == processError(error) IN
          /\ call.method = "retry"
          /\ inFlight' = inFlight \ {call}
          /\ state' = [state EXCEPT !.lastError = processedError,
                                    !.isRetrying = FALSE]
          /\ onMaxLog' = IF state.attempt >= state.maxAttempts
                         THEN CallOnMaxAttemptsReached(retryCallbacks, processedError)
                         ELSE onMaxLog
          /\ settled' = [status |-> "rejected", id |-> call.id, method |-> "retry",
                         cause |-> "operation", thrown |-> error,
                         error |-> EnhancedError(processedError)]
    /\ UNCHANGED <<appVars, classifierVars, component, options, invocations, slotInvocations, onRetryLog,
                   engineVars, managerOptions, retryCallbacks, countdown, methodCalls>>

reset ==
    /\ component \in RetryManagerCallers
    /\ methodCalls < MaxMethodCalls
    /\ methodCalls' = methodCalls + 1
    /\ state' = InitialState(managerOptions)
    /\ slotInvocations' = 0
    /\ UNCHANGED <<appVars, classifierVars, component, options, invocations, onRetryLog,
                   onMaxLog, engineVars, managerOptions, retryCallbacks, countdown, inFlight,
                   settled>>

\* the caller writes to the object getState() returned: `{ ...this.state }`
\* copies the five properties, so the copy's lastError is the very object
\* this.state.lastError refers to.  A write to a property of the copy stays
\* in the copy; a write through the copy's lastError lands in that object.
mutateSnapshot ==
    /\ component = "RetryManager"
    /\ \E path \in {<<"attempt">>, <<"lastError">>, <<"isRetrying">>,
                     <<"lastError", "retryable">>} :
          IF Len(path) = 2 /\ getState.lastError # Null
          THEN \E flag \in BOOLEAN :
                  state' = [state EXCEPT !.lastError.retryable = flag]
          ELSE UNCHANGED state
    /\ UNCHANGED <<appVars, classifierVars, component, options, invocations, slotInvocations, onRetryLog,
                   onMaxLog, engineVars, managerOptions, retryCallbacks, countdown, inFlight,
                   methodCalls, settled>>

ManagerNext ==
    \/ execute
    \/ executeResolved
    \/ executeRejected
    \/ retry
    \/ retryResolved
    \/ retryRejected
    \/ reset

\* new RetryManager(operation, options)
ManagerInit ==
    /\ component = "RetryManager"
    /\ options \in ManagerOptionChoices
    /\ managerOptions = ConstructorOptions(options)
    /\ retryCallbacks = ConstructorCallbacks(options)
    /\ state = InitialState(ConstructorOptions(options))
    /\ inFlight = {}
    /\ methodCalls = 0
    /\ settled = Pending
    /\ slotInvocations = 0
    /\ countdown = NoCountdown
    /\ display = NoDisplay
    /\ invocations = 0
    /\ onRetryLog = <<>>
    /\ onMaxLog = <<>>
    /\ config = Null
    /\ pc = "idle"
    /\ attempt = 0
    /\ lastError = Null
    /\ opLog = <<>>
    /\ delays = <<>>
    /\ outcome = Pending
    /\ input = Null
    /\ result = Pending
    /\ reclassified = Pending
    /\ openaiService = Null
    /\ hook = Null
    /\ appState = Null
    /\ awaiting = Null
    /\ calls = Null
    /\ apiResponse = Null

ManagerSpec == ManagerInit /\ [][ManagerNext]_vars

\* a RetryManager whose caller also writes to the snapshots it is given
SnapshotSpec == ManagerInit /\ [][ManagerNext \/ mutateSnapshot]_vars

(***************************************************************************)
(* services/retryService.ts: RetryManager.getRetryCountdown                *)
(*                                                                         *)
(* The countdown keeps `delay` and `startTime` in its closure.  The timer  *)
(* of setInterval(..., 100) and the clock are the environment: a tick runs *)
(* when at least the interval has passed since the previous one, and       *)
(* later when the timer is throttled.  onTick is an observer of its        *)
(* declared type (remainingMs) => void.                                    *)
(***************************************************************************)
\* the interval handed to setInterval
TickInterval == 100

\* by how much Date.now() has advanced when the next tick runs
TickGaps == {TickInterval, 250}

\* a <= b for rationals with positive denominators
RatLeq(a, b) == a.num * b.den <= b.num * a.den

\* faulty variant: the remaining time is not clamped at 0
Remaining_Unclamped(delay, elapsed) ==
    Rat(delay.num - elapsed * delay.den, delay.den)

\* Math.max(0, delay - elapsed)
Remaining(delay, elapsed) ==
    IF delay.num - elapsed * delay.den <= 0
    THEN Num(0)
    ELSE Rat(delay.num - elapsed * delay.den, delay.den)

\* getRetryCountdown(onTick), up to the return of the promise
getRetryCountdown ==
    /\ component = "RetryCountdown"
    /\ countdown.status = "idle"
    /\ methodCalls < MaxMethodCalls
    /\ methodCalls' = methodCalls + 1
    /\ countdown' = [status |-> "running", delay |-> state.nextRetryDelay,
                     elapsed |-> 0, onTick |-> {}]
    /\ UNCHANGED <<appVars, classifierVars, engineVars, component, options,
                   invocations, slotInvocations, onRetryLog, onMaxLog,
                   managerOptions, retryCallbacks, state, inFlight, settled>>

\* the callback of setInterval
countdownTick ==
    /\ component = "RetryCountdown"
    /\ countdown.status = "running"
    /\ \E gap \in TickGaps :
          LET elapsed == countdown.elapsed + gap
              remaining == Remaining(countdown.delay, elapsed)
          IN  countdown' = [countdown EXCEPT
                               !.elapsed = elapsed,
                               !.onTick = {remaining},
                               !.status = IF RatLeq(remaining, Num(0))
                                          THEN "resolved" ELSE "running"]
    /\ UNCHANGED <<appVars, classifierVars, engineVars, component, options,
                   invocations, slotInvocations, onRetryLog, onMaxLog,
                   managerOptions, retryCallbacks, state, inFlight, methodCalls,
                   settled>>

CountdownNext == getRetryCountdown \/ countdownTick

\* the policy of the view that shows the countdown: delays of 150, 225 and
\* 337.5 ms
CountdownOptionChoices ==
    { [proto |-> "Object", maxAttempts |-> 3, baseDelay |-> 150,
       backoffMultiplier |-> [num |-> 3, den |-> 2]] }

\* new RetryManager(operation, options), in a view that shows the countdown
CountdownInit ==
    /\ component = "RetryCountdown"
    /\ options \in CountdownOptionChoices
    /\ managerOptions = ConstructorOptions(options)
    /\ retryCallbacks = ConstructorCallbacks(options)
    /\ state = InitialState(ConstructorOptions(options))
    /\ countdown = NoCountdown
    /\ display = NoDisplay
    /\ inFlight = {}
    /\ methodCalls = 0
    /\ settled = Pending
    /\ slotInvocations = 0
    /\ invocations = 0
    /\ onRetryLog = <<>>
    /\ onMaxLog = <<>>
    /\ config = Null
    /\ pc = "idle"
    /\ attempt = 0
    /\ lastError = Null
    /\ opLog = <<>>
    /\ delays = <<>>
    /\ outcome = Pending
    /\ input = Null
    /\ result = Pending
    /\ reclassified = Pending
    /\ openaiService = Null
    /\ hook = Null
    /\ appState = Null
    /\ awaiting = Null
    /\ calls = Null
    /\ apiResponse = Null

CountdownSpec == CountdownInit /\ [][ManagerNext \/ CountdownNext]_vars

\* the timer keeps firing while the interval is set
CountdownLiveSpec == CountdownSpec /\ WF_vars(countdownTick)

(***************************************************************************)
(* utils/errorHandler.ts: a call of ErrorHandler.processError on any value *)
(*                                                                         *)
(* ApiResponse declares `error?: string`, but processError takes an        *)
(* `unknown` and narrows it with `'success' in error` only.  An own        *)
(* property whose value is not of its declared type is kept in the         *)
(* object's `untyped` record, so that the declared string stays a token    *)
(* sequence; in the inputs below only `error` is ever untyped.             *)
(***************************************************************************)
\* the value of property k when it is not of its declared type
Untyped(o, k) ==
    IF "untyped" \in DOMAIN o /\ k \in DOMAIN o.untyped THEN {o.untyped[k]} ELSE {}

\* !value, for a value that is not a string
IsFalsy(v) ==
    /\ ~IsObject(v)
    /\ \/ v.prim \in {"null", "undefined"}
       \/ v.prim = "number" /\ v.num = 0

\* calling `.includes` on a value that has no such method
IncludesTypeError ==
    [proto |-> "Error", name |-> "TypeError",
     message |-> <<"message.includes", "is", "not", "a", "function">>]

\* processApiResponseError when `response.error || 'Unknown API error'` is
\* not a string: the cases 401 and 400 call message.includes, the others
\* store the value as the message
processUntypedApiResponseError(response, message) ==
    IF Opt(response, "statusCode") \in {{401}, {400}}
    THEN Rejected(IncludesTypeError)
    ELSE Resolved([processApiResponseError(response) EXCEPT !.message = message])

\* processError(error) reaches processApiResponseError with a truthy
\* `response.error` that is not a string
HasUntypedMessage(error) ==
    /\ ~InstanceOfEnhancedError(error)
    /\ ~isAppError(error)
    /\ isApiResponse(error)
    /\ ~error.success
    /\ \E v \in Untyped(error, "error") : ~IsFalsy(v)

\* how a call processError(error) completes
processErrorCall(error) ==
    IF HasUntypedMessage(error)
    THEN processUntypedApiResponseError(error, CHOOSE v \in Untyped(error, "error") : TRUE)
    ELSE Resolved(processError(error))

\* the statusCode of an ApiResponse: left out or one of these
StatusCodes == {0, 400, 401, 403, 408, 429, 500}

\* openaiService.ts: the message of a content-policy failure (the full stop
\* is a token of its own)
ContentPolicyMessage ==
    <<"Content", "policy", "violation", ".", "Please", "modify", "your", "job",
      "description", "and", "try", "again", ".">>

\* the error strings of an ApiResponse (openaiService.ts and the tests)
ErrorStrings ==
    { <<>>,
      <<"Invalid", "API", "key", "provided">>,
      <<"API", "key", "not", "configured">>,
      <<"invalid", "api", "key">>,
      <<"Unauthorized">>,
      <<"Content", "violates", "content", "policy">>,
      ContentPolicyMessage,
      <<"Job", "description", "is", "required">>,
      <<"Rate", "limit", "exceeded">>,
      <<"Network", "error", "occurred">>,
      <<"Internal", "server", "error">> }

\* values of `error` that are not strings
NonStringErrors ==
    { [prim |-> "number", num |-> 42],
      [prim |-> "number", num |-> 0],
      [proto |-> "Object", message |-> <<"Incorrect", "API", "key">>,
       type |-> "invalid_api_key"] }

\* {success: false, error?, statusCode?} with a string error
ApiResponses ==
    LET bare == [proto |-> "Object", success |-> FALSE]
        codes == {{}} \cup {{c} : c \in StatusCodes}
        errors == {{}} \cup {{e} : e \in ErrorStrings}
    IN  { WithOpt(WithOpt(bare, "statusCode", c), "error", e) :
             c \in codes, e \in errors }

\* {success: false, error, statusCode?} with an error that is not a string
UntypedApiResponses ==
    LET bare == [proto |-> "Object", success |-> FALSE]
        codes == {{}} \cup {{c} : c \in StatusCodes}
    IN  { WithOpt(bare, "statusCode", c) @@ [untyped |-> [error |-> v]] :
             c \in codes, v \in NonStringErrors }

\* every other shape processError distinguishes
OtherInputs ==
    OperationFailures
    \cup { AppError("VALIDATION_ERROR", <<"Required", "field">>, {400},
                    {<<"field">>}, FALSE),
           EnhancedError(InvalidApiKey),
           [proto |-> "Object", success |-> TRUE, data |-> <<"letter">>],
           [proto |-> "Object"],
           [proto |-> "Error", name |-> "Error", message |-> <<>>],
           [proto |-> "Error", name |-> "Error",
            message |-> <<"Failed", "to", "fetch">>, stack |-> <<"stack">>],
           [proto |-> "Error", name |-> "TypeError",
            message |-> <<"field", "is", "required">>, stack |-> <<"stack">>],
           [proto |-> "Error", name |-> "Error", message |-> <<"boom">>],
           [prim |-> "number", num |-> 404],
           Null,
           Undefined }

ClassifierInputs == ApiResponses \cup UntypedApiResponses \cup OtherInputs

\* errorHandler.processError(input)
ProcessErrorCall ==
    /\ component = "processError"
    /\ result = Pending
    /\ result' = processErrorCall(input)
    /\ UNCHANGED <<component, options, invocations, onRetryLog, onMaxLog, engineVars,
                   managerVars, appVars, input, reclassified>>

\* new EnhancedError(appError) for the AppError processError returned:
\* super(message) stores String(message) when the message is not a string
EnhancedErrorOfResult ==
    IF HasUntypedMessage(input)
    THEN EnhancedError([result.value EXCEPT !.message = String(result.value.message)])
    ELSE EnhancedError(result.value)

\* an outer layer is handed the AppError itself and classifies it again:
\* processError(processError(input))
ProcessErrorAgain ==
    /\ component = "processError"
    /\ result.status = "resolved"
    /\ reclassified = Pending
    /\ reclassified' = [status |-> "resolved", of |-> "AppError",
                        value |-> processError(result.value)]
    /\ UNCHANGED <<component, options, invocations, onRetryLog, onMaxLog, engineVars,
                   managerVars, appVars, input, result>>

\* an outer retry layer catches the EnhancedError an inner one threw:
\* processError(new EnhancedError(processError(input)))
ProcessEnhancedError ==
    /\ component = "processError"
    /\ result.status = "resolved"
    /\ reclassified = Pending
    /\ reclassified' = [status |-> "resolved", of |-> "EnhancedError",
                        value |-> processError(EnhancedErrorOfResult)]
    /\ UNCHANGED <<component, options, invocations, onRetryLog, onMaxLog, engineVars,
                   managerVars, appVars, input, result>>

ClassifierNext == ProcessErrorCall \/ ProcessErrorAgain \/ ProcessEnhancedError

ClassifierInit ==
    /\ component = "processError"
    /\ input \in ClassifierInputs
    /\ result = Pending
    /\ reclassified = Pending
    /\ openaiService = Null
    /\ hook = Null
    /\ appState = Null
    /\ awaiting = Null
    /\ calls = Null
    /\ apiResponse = Null
    /\ options = EmptyOptions
    /\ config = Null
    /\ pc = "idle"
    /\ attempt = 0
    /\ lastError = Null
    /\ invocations = 0
    /\ opLog = <<>>
    /\ delays = <<>>
    /\ onRetryLog = <<>>
    /\ onMaxLog = <<>>
    /\ outcome = Pending
    /\ managerOptions = Null
    /\ retryCallbacks = Null
    /\ state = Null
    /\ inFlight = {}
    /\ methodCalls = 0
    /\ settled = Pending
    /\ slotInvocations = 0
    /\ countdown = NoCountdown
    /\ display = NoDisplay

ClassifierSpec == ClassifierInit /\ [][ClassifierNext]_vars

(***************************************************************************)
(* services/openaiService.ts, hooks/useErrorHandler.ts and App.tsx: the    *)
(* path of a generation request.  The remote client                        *)
(* (this.client.chat.completions.create) is the environment: a request     *)
(* resolves with a completion or rejects with an error, in its own step.   *)
(* Everything the handlers do between two awaits of the client is one      *)
(* step: promise continuations run before the next user event.  In the     *)
(* messages the full stop and the colon are tokens of their own, so that   *)
(* includes() sees 'Content policy violation' in 'Content policy           *)
(* violation. Please ...'.                                                 *)
(***************************************************************************)
ApiKeyNotConfigured == <<"API", "key", "not", "configured">>
JobDescriptionRequired == <<"Job", "description", "is", "required">>
NoContentGenerated == <<"No", "content", "generated", "from", "API">>
InvalidApiKeyMessage ==
    <<"Invalid", "API", "key", ".", "Please", "check", "your", "OpenAI", "API", "key",
      "configuration", ".">>
RateLimitMessage ==
    <<"Rate", "limit", "exceeded", ".", "Please", "wait", "a", "moment", "before",
      "trying", "again", ".">>
NetworkErrorMessage ==
    <<"Network", "error", ".", "Please", "check", "your", "internet", "connection",
      "and", "try", "again", ".">>
TimeoutMessage == <<"Request", "timeout", ".", "Please", "try", "again", ".">>

\* an ApiResponse {success: false, error, statusCode}
ApiFailure(error, statusCode) ==
    [proto |-> "Object", success |-> FALSE, error |-> error, statusCode |-> statusCode]

\* String.prototype.trim: a token " " is white space
RECURSIVE TrimStart(_)
TrimStart(s) == IF s # <<>> /\ Head(s) = " " THEN TrimStart(Tail(s)) ELSE s

RECURSIVE TrimEnd(_)
TrimEnd(s) ==
    IF s # <<>> /\ s[Len(s)] = " " THEN TrimEnd(SubSeq(s, 1, Len(s) - 1)) ELSE s

Trim(s) == TrimEnd(TrimStart(s))

\* OpenAIService.isConfigured
isConfigured(this) == this.apiKey # <<>> /\ this.client # Null

\* OpenAIService.handleApiError
handleApiError(error) ==
    IF "error" \in DOMAIN error
    THEN LET errorMessage == IF Opt(error.error, "message") \in {{}, {<<>>}}
                             THEN <<"Unknown", "API", "error">>
                             ELSE error.error.message
             errorType == IF "type" \in DOMAIN error.error THEN error.error.type ELSE ""
             statusCode == IF Opt(error, "statusCode") \notin {{}, {0}}
                           THEN error.statusCode
                           ELSE IF Opt(error, "status") \notin {{}, {0}}
                           THEN error.status
                           ELSE 500
         IN  IF statusCode = 401 \/ errorType = "invalid_api_key"
             THEN ApiFailure(InvalidApiKeyMessage, 401)
             ELSE IF statusCode = 429 \/ errorType = "rate_limit_exceeded"
             THEN ApiFailure(RateLimitMessage, 429)
             ELSE IF statusCode = 400 /\ errorType = "content_policy_violation"
             THEN ApiFailure(ContentPolicyMessage, 400)
             ELSE ApiFailure(<<"API", "Error", ":">> \o errorMessage, statusCode)
    ELSE IF Opt(error, "code") = {"NETWORK_ERROR"}
            \/ \E m \in Opt(error, "message") : Includes(m, <<"network">>)
    THEN ApiFailure(NetworkErrorMessage, 0)
    ELSE IF Opt(error, "code") = {"ECONNABORTED"}
            \/ \E m \in Opt(error, "message") : Includes(m, <<"timeout">>)
    THEN ApiFailure(TimeoutMessage, 408)
    ELSE ApiFailure(<<"Unexpected", "error", ":">>
                    \o (IF Opt(error, "message") \in {{}, {<<>>}}
                        THEN <<"An", "unexpected", "error", "occurred">>
                        ELSE error.message),
                    500)

\* OpenAIService.responseToAppError
responseToAppError(response) ==
    LET statusCode == StatusCodeOr500(response)
        message == IF Opt(response, "error") \in {{}, {<<>>}}
                   THEN <<"Unknown", "error">>
                   ELSE response.error
        switch ==
            CASE statusCode = 401 ->
                     <<IF Includes(message, <<"API", "key">>)
                       THEN "API_KEY_INVALID" ELSE "API_KEY_MISSING", FALSE>>
              [] statusCode = 429 -> <<"API_RATE_LIMIT", TRUE>>
              [] statusCode = 400 ->
                     <<IF Includes(message, <<"Content", "policy", "violation">>)
                       THEN "API_CONTENT_POLICY" ELSE "VALIDATION_ERROR", FALSE>>
              [] statusCode \in {0, 408} -> <<"NETWORK_ERROR", TRUE>>
              [] OTHER ->
                     <<IF Includes(message, <<"Network", "error">>)
                       THEN "NETWORK_ERROR" ELSE "API_GENERAL_ERROR", TRUE>>
    IN  AppError(switch[1], message, {statusCode}, {}, switch[2])

\* what this.client.chat.completions.create resolves with: the content of
\* response.choices[0]?.message?.content, absent when there is none
CompletionContents == {{}, {<<>>}, {<<" ">>}, {<<"Dear", "Hiring", "Team">>}}

\* what this.client.chat.completions.create rejects with: API errors of the
\* client library ({status, error: {message, type}}) and native Errors
ClientFailures ==
    { [proto |-> "Error", name |-> "AuthenticationError", status |-> 401,
       error |-> [message |-> <<"Incorrect", "API", "key", "provided">>,
                  type |-> "invalid_api_key"]],
      [proto |-> "Error", name |-> "RateLimitError", status |-> 429,
       error |-> [message |-> <<"Rate", "limit", "reached">>,
                  type |-> "rate_limit_exceeded"]],
      [proto |-> "Error", name |-> "BadRequestError", status |-> 400,
       error |-> [message |-> <<"Rejected", "by", "the", "safety", "system">>,
                  type |-> "content_policy_violation"]],
      [proto |-> "Error", name |-> "BadRequestError", status |-> 400,
       error |-> [message |-> <<"Invalid", "request">>,
                  type |-> "invalid_request_error"]],
      [proto |-> "Error", name |-> "InternalServerError", status |-> 503,
       error |-> [message |-> <<"The", "server", "is", "overloaded">>,
                  type |-> "server_error"]],
      [proto |-> "Error", name |-> "TypeError",
       message |-> <<"network", "request", "failed">>],
      [proto |-> "Error", name |-> "Error", code |-> "ECONNABORTED",
       message |-> <<"timeout", "of", "30000ms", "exceeded">>],
      [proto |-> "Error", name |-> "Error", message |-> <<"boom">>] }

\* the CoverLetterRequest objects a submit carries: InputForm submits only
\* with a job description that is not blank
FormData ==
    { [proto |-> "Object", jobDescription |-> <<"Test", "job">>],
      [proto |-> "Object", jobDescription |-> <<" ", "Senior", "Developer", " ">>] }

\* generateCoverLetter up to the call of the client: the response it returns
\* without calling the client, if any
ResponseWithoutRequest(this, request) ==
    IF ~isConfigured(this) THEN {ApiFailure(ApiKeyNotConfigured, 401)}
    ELSE IF Trim(request.jobDescription) = <<>>
    THEN {ApiFailure(JobDescriptionRequired, 400)}
    ELSE {}

\* generateCoverLetter after the client resolved
ResponseOfCompletion(content) ==
    IF content \in {{}, {<<>>}}
    THEN ApiFailure(NoContentGenerated, 500)
    ELSE [proto |-> "Object", success |-> TRUE,
          data |-> Trim(CHOOSE c \in content : TRUE)]

\* the operation App hands to withErrorHandling, after generateCoverLetter
\* returned: the data, or responseToAppError(response) thrown
OperationOutcome(response) ==
    IF response.success /\ response.data # <<>>
    THEN Resolved(response.data)
    ELSE Rejected(responseToAppError(response))

\* useErrorHandler: clearError
clearError(h) ==
    [h EXCEPT !.error = Null, !.isRetrying = FALSE, !.retryCount = 0,
              !.lastOperationRef = Null, !.retryManagerRef = Null]

\* useErrorHandler: setError
setError(h, errorInput) ==
    [h EXCEPT !.error = processError(errorInput), !.isRetrying = FALSE]

\* useErrorHandler: state.canRetry
StateCanRetry(h) == h.error # Null /\ isRetryable(h.error, DEFAULT_RETRY_CONFIG)

\* useErrorHandler: withErrorHandling up to `await operation()`
withErrorHandlingStart(h, operation) ==
    clearError([h EXCEPT !.lastOperationRef = operation])

\* the id generateId() gives the n-th letter the application generates
LetterId(n) == [prim |-> "string", letter |-> n]

\* letters.find(letter => letter.id === letterId): the content of the letter
\* found, if any (letters holds the contents, newest first)
FindLetter(letters, letterId) ==
    IF letterId # Null /\ letterId.letter \in 1..Len(letters)
    THEN {letters[Len(letters) - letterId.letter + 1]}
    ELSE {}

\* faulty variant: a failure drops the selection
SettleWithErrorHandling_DropsSelection(h, s, o) ==
    /\ hook' = IF o.status = "resolved" THEN h ELSE setError(h, o.error)
    /\ appState' =
          [s EXCEPT
              !.isLoading = FALSE,
              !.generatedLetters =
                  IF o.status = "resolved" /\ o.value # <<>>
                  THEN <<o.value>> \o @ ELSE @,
              !.selectedLetterId =
                  IF o.status = "resolved" /\ o.value # <<>>
                  THEN LetterId(Len(s.generatedLetters) + 1) ELSE Null]

\* the rest of withErrorHandling and of handleFormSubmit or handleRegenerate,
\* once the operation settled with outcome o; s is the state the handler's
\* first setAppState produced
SettleWithErrorHandling(h, s, o) ==
    /\ hook' = IF o.status = "resolved" THEN h ELSE setError(h, o.error)
    /\ appState' =
          [s EXCEPT
              !.isLoading = FALSE,
              !.generatedLetters =
                  IF o.status = "resolved" /\ o.value # <<>>
                  THEN <<o.value>> \o @ ELSE @,
              !.selectedLetterId =
                  IF o.status = "resolved" /\ o.value # <<>>
                  THEN LetterId(Len(s.generatedLetters) + 1) ELSE @]

\* the rest of useErrorHandler's retry, once the operation settled
SettleRetry(h, o) ==
    /\ hook' = IF o.status = "resolved" THEN clearError(h) ELSE setError(h, o.error)
    /\ UNCHANGED appState

\* App.handleFormSubmit(formData), up to the request to the client or, when
\* generateCoverLetter returns without one, to its end
handleFormSubmit ==
    /\ component = "App"
    /\ ~appState.isLoading
    /\ awaiting = Null
    /\ calls.userActions < MaxUserActions
    /\ \E formData \in FormData :
          LET h == withErrorHandlingStart(clearError(hook), [formData |-> formData])
              early == ResponseWithoutRequest(openaiService, formData)
              s == [appState EXCEPT !.isLoading = TRUE,
                                    !.jobDescription = formData.jobDescription]
          IN  /\ calls' = [calls EXCEPT !.userActions = @ + 1,
                                        !.generateCoverLetter = @ + 1,
                                        !.sinceSubmit = 1,
                                        !.retriesSinceSubmit = 0,
                                        !.create = IF early = {} THEN @ + 1 ELSE @,
                                        !.formData = formData]
              /\ IF early = {}
                 THEN /\ awaiting' = [caller |-> "withErrorHandling"]
                      /\ hook' = h
                      /\ appState' = s
                      /\ UNCHANGED apiResponse
                 ELSE /\ awaiting' = Null
                      /\ apiResponse' = CHOOSE r \in early : TRUE
                      /\ SettleWithErrorHandling(h, s, OperationOutcome(apiResponse'))
    /\ UNCHANGED <<classifierVars, managerVars, engineVars, component, options,
                   invocations, onRetryLog, onMaxLog, openaiService, display>>

\* what the user types into the modal's textarea, trimmed
AdditionalContexts == {<<>>, <<"Emphasise", "leadership">>}

\* App.handleRegenerateClick: the button next to the download button
\* (rendered for a selected letter while not loading) or "Try Again" in
\* the display's error box (rendered for a retryable error)
handleRegenerateClick ==
    /\ component = "App"
    /\ calls.userActions < MaxUserActions
    /\ \/ hook.error # Null /\ hook.error.retryable
       \/ /\ FindLetter(appState.generatedLetters, appState.selectedLetterId) # {}
          /\ ~(appState.isLoading \/ hook.isRetrying)
    /\ appState' = [appState EXCEPT !.isRegenerateModalOpen = TRUE]
    /\ calls' = [calls EXCEPT !.userActions = @ + 1]
    /\ UNCHANGED <<classifierVars, managerVars, engineVars, component, options,
                   invocations, onRetryLog, onMaxLog, openaiService, hook,
                   awaiting, apiResponse, display>>

\* App.handleRegenerateModalClose: Escape or a click on the backdrop
handleRegenerateModalClose ==
    /\ component = "App"
    /\ calls.userActions < MaxUserActions
    /\ appState.isRegenerateModalOpen
    /\ appState' = [appState EXCEPT !.isRegenerateModalOpen = FALSE]
    /\ calls' = [calls EXCEPT !.userActions = @ + 1]
    /\ UNCHANGED <<classifierVars, managerVars, engineVars, component, options,
                   invocations, onRetryLog, onMaxLog, openaiService, hook,
                   awaiting, apiResponse, display>>

\* RegenerateModal.handleSubmit -> App.handleRegenerate(additionalContext,
\* useCurrentLetter), up to the request to the client or, when
\* generateCoverLetter returns without one, to its end.  The modal's
\* isSubmitting is true only while appState.isLoading is or the modal is
\* closed, so the guard on isLoading covers it.
handleRegenerate ==
    /\ component = "App"
    /\ appState.isRegenerateModalOpen
    /\ ~appState.isLoading
    /\ awaiting = Null
    /\ calls.userActions < MaxUserActions
    /\ \E additionalContext \in AdditionalContexts :
          LET formData == [proto |-> "Object",
                           jobDescription |-> appState.jobDescription,
                           additionalContext |-> additionalContext]
              h == withErrorHandlingStart(clearError(hook), [formData |-> formData])
              early == ResponseWithoutRequest(openaiService, formData)
              s == [appState EXCEPT !.isLoading = TRUE,
                                    !.isRegenerateModalOpen = FALSE]
          IN  /\ calls' = [calls EXCEPT !.userActions = @ + 1,
                                        !.generateCoverLetter = @ + 1,
                                        !.sinceSubmit = 1,
                                        !.retriesSinceSubmit = 0,
                                        !.create = IF early = {} THEN @ + 1 ELSE @,
                                        !.formData = formData]
              /\ IF early = {}
                 THEN /\ awaiting' = [caller |-> "withErrorHandling",
                                      onClose |-> TRUE]
                      /\ hook' = h
                      /\ appState' = s
                      /\ UNCHANGED apiResponse
                 ELSE /\ awaiting' = Null
                      /\ apiResponse' = CHOOSE r \in early : TRUE
                      /\ SettleWithErrorHandling(h, s, OperationOutcome(apiResponse'))
    /\ UNCHANGED <<classifierVars, managerVars, engineVars, component, options,
                   invocations, onRetryLog, onMaxLog, openaiService, display>>

\* App.handleRetry, the onRetry of ErrorDisplay (rendered when canRetry)
handleRetry ==
    /\ component = "App"
    /\ hook.error # Null
    /\ StateCanRetry(hook)
    /\ hook.retryManagerRef = Null
    /\ awaiting = Null
    /\ calls.userActions < MaxUserActions
    /\ IF hook.lastOperationRef = Null
       THEN /\ calls' = [calls EXCEPT !.userActions = @ + 1,
                                      !.retriesSinceSubmit = @ + 1]
            /\ UNCHANGED <<hook, appState, awaiting, apiResponse>>
       ELSE LET h == [hook EXCEPT !.isRetrying = TRUE, !.retryCount = @ + 1]
                early == ResponseWithoutRequest(openaiService,
                                                hook.lastOperationRef.formData)
            IN  /\ calls' = [calls EXCEPT !.userActions = @ + 1,
                                          !.retriesSinceSubmit = @ + 1,
                                          !.generateCoverLetter = @ + 1,
                                          !.sinceSubmit = @ + 1,
                                          !.create = IF early = {} THEN @ + 1 ELSE @]
                /\ IF early = {}
                   THEN /\ awaiting' = [caller |-> "retry"]
                        /\ hook' = h
                        /\ UNCHANGED <<appState, apiResponse>>
                   ELSE /\ awaiting' = Null
                        /\ apiResponse' = CHOOSE r \in early : TRUE
                        /\ SettleRetry(h, OperationOutcome(apiResponse'))
    /\ UNCHANGED <<classifierVars, managerVars, engineVars, component, options,
                   invocations, onRetryLog, onMaxLog, openaiService, display>>

\* errorActions.clearError, the onDismiss of ErrorDisplay
onDismiss ==
    /\ component = "App"
    /\ hook.error # Null
    /\ calls.userActions < MaxUserActions
    /\ hook' = clearError(hook)
    /\ calls' = [calls EXCEPT !.userActions = @ + 1]
    /\ UNCHANGED <<classifierVars, managerVars, engineVars, component, options,
                   invocations, onRetryLog, onMaxLog, openaiService, appState,
                   awaiting, apiResponse, display>>

\* the rest of generateCoverLetter and of its callers, once the client
\* settled and generateCoverLetter returned response
SettleGeneration(response) ==
    /\ apiResponse' = response
    /\ awaiting' = Null
    /\ IF awaiting.caller = "withErrorHandling"
       THEN SettleWithErrorHandling(
                hook,
                \* RegenerateModal.handleSubmit calls onClose() after onRegenerate
                IF "onClose" \in DOMAIN awaiting
                THEN [appState EXCEPT !.isRegenerateModalOpen = FALSE]
                ELSE appState,
                OperationOutcome(response))
       ELSE SettleRetry(hook, OperationOutcome(response))
    /\ UNCHANGED <<classifierVars, managerVars, engineVars, component, options,
                   invocations, onRetryLog, onMaxLog, openaiService, calls, display>>

\* this.client.chat.completions.create resolves
createResolved ==
    /\ component = "App"
    /\ awaiting # Null
    /\ \E content \in CompletionContents :
          SettleGeneration(ResponseOfCompletion(content))

\* this.client.chat.completions.create rejects
createRejected ==
    /\ component = "App"
    /\ awaiting # Null
    /\ \E error \in ClientFailures : SettleGeneration(handleApiError(error))

\* openaiService.setApiKey(apiKey), from App's effect on the stored key
setApiKey ==
    /\ component = "App"
    /\ awaiting = Null
    /\ ~isConfigured(openaiService)
    /\ openaiService' = [apiKey |-> <<"sk-test">>, client |-> [proto |-> "OpenAI"]]
    /\ UNCHANGED <<classifierVars, managerVars, engineVars, component, options,
                   invocations, onRetryLog, onMaxLog, appState, hook, awaiting,
                   calls, apiResponse, display>>

\* what pdfService.generatePDF rejects with
PdfFailure ==
    [proto |-> "Error", name |-> "Error",
     message |-> <<"Failed", "to", "generate", "PDF">>]

\* CoverLetterDisplay: localContent, which the effect on selectedLetter sets
localContent ==
    LET selectedLetter == FindLetter(appState.generatedLetters,
                                     appState.selectedLetterId)
    IN  IF selectedLetter = {} THEN <<>> ELSE CHOOSE c \in selectedLetter : TRUE

\* faulty variant: the button stays enabled while a download is in progress
downloadDisabled_IgnoresIsDownloading ==
    \/ appState.isLoading \/ hook.isRetrying
    \/ Trim(localContent) = <<>>

\* CoverLetterDisplay: the disabled attribute of the download button, isLoading
\* being the prop App passes (appState.isLoading || errorState.isRetrying)
downloadDisabled ==
    \/ appState.isLoading \/ hook.isRetrying
    \/ display.isDownloading
    \/ Trim(localContent) = <<>>

\* a click on the download button.  A disabled button dispatches no event;
\* otherwise CoverLetterDisplay.handleDownload runs with the state update it
\* makes rendered before the next click, and calls App.handleDownload up to
\* the first call of pdfService.generatePDF inside withRetry.
handleDownload ==
    /\ component = "App"
    /\ calls.userActions < MaxUserActions
    /\ calls' = [calls EXCEPT !.userActions = @ + 1]
    /\ IF downloadDisabled \/ appState.selectedLetterId = Null
       THEN /\ display' = [display EXCEPT !.clicks = @ + 1]
            /\ UNCHANGED hook
       ELSE /\ hook' = withErrorHandlingStart(
                           hook, [letterId |-> appState.selectedLetterId])
            /\ display' =
                  [display EXCEPT
                      !.clicks = @ + 1,
                      !.isDownloading = TRUE,
                      !.onDownload = @ + 1,
                      !.generatePDF = @ + 1,
                      !.exports = @ \cup {[call |-> display.onDownload + 1,
                                           attempt |-> 1]}]
    /\ UNCHANGED <<classifierVars, managerVars, engineVars, component, options,
                   invocations, onRetryLog, onMaxLog, openaiService, appState,
                   awaiting, apiResponse>>

\* pdfService.generatePDF resolves: withRetry, withErrorHandling and
\* onDownload resolve, and the finally block of handleDownload runs
generatePDFResolved ==
    /\ component = "App"
    /\ \E export \in display.exports :
          display' = [display EXCEPT !.exports = @ \ {export},
                                     !.isDownloading = FALSE]
    /\ UNCHANGED <<classifierVars, managerVars, engineVars, component, options,
                   invocations, onRetryLog, onMaxLog, openaiService, hook,
                   appState, awaiting, calls, apiResponse>>

\* pdfService.generatePDF rejects: withRetry calls it again after the delay,
\* or throws the EnhancedError that withErrorHandling stores with setError
\* before onDownload resolves and the finally block of handleDownload runs
generatePDFRejected ==
    /\ component = "App"
    /\ \E export \in display.exports :
          LET processedError == processError(PdfFailure)
          IN  IF /\ isRetryable(processedError, DEFAULT_RETRY_CONFIG)
                 /\ export.attempt # DEFAULT_RETRY_CONFIG.maxAttempts
              THEN /\ display' =
                         [display EXCEPT
                             !.generatePDF = @ + 1,
                             !.exports = (@ \ {export})
                                 \cup {[export EXCEPT !.attempt = @ + 1]}]
                   /\ UNCHANGED hook
              ELSE /\ hook' = setError(hook, EnhancedError(processedError))
                   /\ display' = [display EXCEPT !.exports = @ \ {export},
                                                  !.isDownloading = FALSE]
    /\ UNCHANGED <<classifierVars, managerVars, engineVars, component, options,
                   invocations, onRetryLog, onMaxLog, openaiService, appState,
                   awaiting, calls, apiResponse>>

AppNext ==
    \/ handleFormSubmit
    \/ handleRegenerateClick
    \/ handleRegenerateModalClose
    \/ handleRegenerate
    \/ handleDownload
    \/ generatePDFResolved
    \/ generatePDFRejected
    \/ handleRetry
    \/ onDismiss
    \/ createResolved
    \/ createRejected
    \/ setApiKey

\* new OpenAIService(), useErrorHandler's initial state, DEFAULT_APP_STATE
AppInit ==
    /\ component = "App"
    /\ openaiService = [apiKey |-> <<>>, client |-> Null]
    /\ hook = [error |-> Null, isRetrying |-> FALSE, retryCount |-> 0,
               lastOperationRef |-> Null, retryManagerRef |-> Null]
    /\ appState = [jobDescription |-> <<>>, generatedLetters |-> <<>>,
                   selectedLetterId |-> Null, isLoading |-> FALSE,
                   isRegenerateModalOpen |-> FALSE]
    /\ awaiting = Null
    /\ calls = [userActions |-> 0, generateCoverLetter |-> 0, create |-> 0,
                sinceSubmit |-> 0, retriesSinceSubmit |-> 0, formData |-> Null]
    /\ apiResponse = Null
    /\ input = Null
    /\ result = Pending
    /\ reclassified = Pending
    /\ options = EmptyOptions
    /\ config = Null
    /\ pc = "idle"
    /\ attempt = 0
    /\ lastError = Null
    /\ invocations = 0
    /\ opLog = <<>>
    /\ delays = <<>>
    /\ onRetryLog = <<>>
    /\ onMaxLog = <<>>
    /\ outcome = Pending
    /\ managerOptions = Null
    /\ retryCallbacks = Null
    /\ state = Null
    /\ inFlight = {}
    /\ methodCalls = 0
    /\ settled = Pending
    /\ slotInvocations = 0
    /\ countdown = NoCountdown
    /\ display = [isDownloading |-> FALSE, exports |-> {}, clicks |-> 0,
                  onDownload |-> 0, generatePDF |-> 0]

AppSpec == AppInit /\ [][AppNext]_vars

(***************************************************************************)
(* hooks/useErrorHandler.ts: an operation wrapped by                       *)
(* createRetryableOperation.  The view-model holds the RetryManager the    *)
(* hook returned and calls its execute(); a rejection it may pass to       *)
(* actions.setError.  The retry affordance, shown while state.canRetry,    *)
(* calls actions.retry(), which calls retry() of the manager in            *)
(* retryManagerRef.  The manager's callbacks are the hook's closures.      *)
(***************************************************************************)
\* the retryOptions the view-model passes to useErrorHandler
HookRetryOptions ==
    { EmptyOptions,
      [proto |-> "Object", maxAttempts |-> 1],
      [proto |-> "Object", maxAttempts |-> 2],
      [proto |-> "Object", retryableErrors |-> {"API_RATE_LIMIT"}] }

\* what the wrapped operation rejects with: one failure that is retryable
\* under the default policy and one that is not
HookFailures == {NetworkFailed, InvalidApiKey}

\* the options createRetryableOperation hands to createRetryManager, merged
\* there over the service's defaults
RetryableOperationOptions(retryOptions) ==
    [proto |-> "Object", onRetry |-> "onRetry",
     onMaxAttemptsReached |-> "onMaxAttemptsReached"] @@ retryOptions @@ defaultOptions

\* the onRetry closure: setIsRetrying(true); setRetryCount(attempt)
HookOnRetry(h, attemptNumber) ==
    [h EXCEPT !.isRetrying = TRUE, !.retryCount = attemptNumber]

\* the onMaxAttemptsReached closure: setIsRetrying(false); setError(finalError)
HookOnMaxAttemptsReached(h, finalError) ==
    setError([h EXCEPT !.isRetrying = FALSE], finalError)

\* retryManager.execute(), called by the view-model
managerExecute ==
    /\ component = "useErrorHandler"
    /\ methodCalls < MaxMethodCalls
    /\ Cardinality(inFlight) < MaxInFlight
    /\ state' = [state EXCEPT !.attempt = 1, !.isRetrying = FALSE, !.lastError = Null]
    /\ invocations' = invocations + 1
    /\ slotInvocations' = 1
    /\ inFlight' = inFlight \cup {NextCall("execute")}
    /\ methodCalls' = methodCalls + 1
    /\ UNCHANGED <<appVars, classifierVars, engineVars, component, options,
                   onRetryLog, onMaxLog, managerOptions, retryCallbacks, countdown, settled>>

managerExecuteResolved ==
    /\ component = "useErrorHandler"
    /\ \E call \in inFlight, value \in OperationValues :
          /\ call.method = "execute"
          /\ inFlight' = inFlight \ {call}
          /\ settled' = [status |-> "resolved", id |-> call.id, method |-> "execute",
                         value |-> value]
    /\ UNCHANGED <<appVars, classifierVars, engineVars, component, options,
                   invocations, slotInvocations, onRetryLog, onMaxLog,
                   managerOptions, retryCallbacks, countdown, state, methodCalls>>

\* execute() rejects; the view-model's catch passes the rejection to
\* actions.setError, or handles it on its own
managerExecuteRejected ==
    /\ component = "useErrorHandler"
    /\ \E call \in inFlight, error \in HookFailures, reported \in BOOLEAN :
          LET processedError == processError(error) IN
          /\ call.method = "execute"
          /\ inFlight' = inFlight \ {call}
          /\ state' = [state EXCEPT !.lastError = processedError]
          /\ settled' = [status |-> "rejected", id |-> call.id, method |-> "execute",
                         cause |-> "operation", thrown |-> error,
                         error |-> EnhancedError(processedError)]
          /\ hook' = IF reported
                     THEN setError(hook, EnhancedError(processedError))
                     ELSE hook
    /\ UNCHANGED <<classifierVars, engineVars, component, options, invocations,
                   slotInvocations, onRetryLog, onMaxLog, managerOptions,
                   retryCallbacks, countdown, methodCalls, openaiService, appState, awaiting,
                   calls, apiResponse, display>>

\* actions.retry(), from the retry affordance, up to the await of the
\* manager's retry() or, when that throws at once, to its end
hookRetry ==
    /\ component = "useErrorHandler"
    /\ StateCanRetry(hook)
    /\ methodCalls < MaxMethodCalls
    /\ methodCalls' = methodCalls + 1
    /\ IF hook.lastOperationRef = Null
       THEN UNCHANGED <<hook, state, settled, invocations, slotInvocations,
                        inFlight, onRetryLog>>
       ELSE LET h == [hook EXCEPT !.isRetrying = TRUE, !.retryCount = @ + 1] IN
            IF ~canRetry
            THEN /\ settled' = [status |-> "rejected", id |-> methodCalls + 1,
                                method |-> "retry", cause |-> "canRetry",
                                error |-> CannotRetryError]
                 /\ hook' = setError(h, CannotRetryError)
                 /\ UNCHANGED <<state, invocations, slotInvocations, inFlight,
                                onRetryLog>>
            ELSE /\ Cardinality(inFlight) < MaxInFlight
                 /\ state' = [state EXCEPT
                                 !.attempt = state.attempt + 1,
                                 !.isRetrying = TRUE,
                                 !.nextRetryDelay =
                                     ManagerCalculateDelay(state.attempt + 1)]
                 /\ onRetryLog' = CallOnRetry(retryCallbacks, state.attempt + 1,
                                              state.lastError)
                 /\ hook' = HookOnRetry(h, state.attempt + 1)
                 /\ invocations' = invocations + 1
                 /\ slotInvocations' = slotInvocations + 1
                 /\ inFlight' = inFlight \cup {NextCall("retry")}
                 /\ UNCHANGED settled
    /\ UNCHANGED <<classifierVars, engineVars, component, options, onMaxLog,
                   managerOptions, retryCallbacks, countdown, openaiService, appState,
                   awaiting, calls, apiResponse, display>>

\* the manager's retry() resolves; actions.retry() goes on to clearError()
hookRetryResolved ==
    /\ component = "useErrorHandler"
    /\ \E call \in inFlight, value \in OperationValues :
          /\ call.method = "retry"
          /\ inFlight' = inFlight \ {call}
          /\ state' = [state EXCEPT !.isRetrying = FALSE, !.lastError = Null]
          /\ settled' = [status |-> "resolved", id |-> call.id, method |-> "retry",
                         value |-> value]
          /\ hook' = clearError(hook)
    /\ UNCHANGED <<classifierVars, engineVars, component, options, invocations,
                   slotInvocations, onRetryLog, onMaxLog, managerOptions,
                   retryCallbacks, countdown, methodCalls, openaiService, appState, awaiting,
                   calls, apiResponse, display>>

\* the manager's retry() rejects, after calling onMaxAttemptsReached when
\* the attempts are used up; actions.retry() catches and calls setError
hookRetryRejected ==
    /\ component = "useErrorHandler"
    /\ \E call \in inFlight, error \in HookFailures :
          LET processedError == processError(error)
              exhausted == state.attempt >= state.maxAttempts
              h == IF exhausted
                   THEN HookOnMaxAttemptsReached(hook, processedError)
                   ELSE hook
          IN
          /\ call.method = "retry"
          /\ inFlight' = inFlight \ {call}
          /\ state' = [state EXCEPT !.lastError = processedError,
                                    !.isRetrying = FALSE]
          /\ onMaxLog' = IF exhausted
                         THEN CallOnMaxAttemptsReached(retryCallbacks, processedError)
                         ELSE onMaxLog
          /\ settled' = [status |-> "rejected", id |-> call.id, method |-> "retry",
                         cause |-> "operation", thrown |-> error,
                         error |-> EnhancedError(processedError)]
          /\ hook' = setError(h, EnhancedError(processedError))
    /\ UNCHANGED <<classifierVars, engineVars, component, options, invocations,
                   slotInvocations, onRetryLog, managerOptions, retryCallbacks, countdown,
                   methodCalls, openaiService, appState, awaiting, calls,
                   apiResponse, display>>

\* what an operation handed to withErrorHandling rejects with: an AppError,
\* a native Error and an API response whose `error` is not a string
WithErrorHandlingFailures ==
    { NetworkFailed,
      [proto |-> "Error", name |-> "Error", message |-> <<"Operation", "failed">>,
       stack |-> <<"stack">>],
      [proto |-> "Object", success |-> FALSE, statusCode |-> 401,
       untyped |-> [error |-> [prim |-> "number", num |-> 42]]] }

\* actions.withErrorHandling(operation), up to `await operation()`
withErrorHandling ==
    /\ component = "useErrorHandler"
    /\ methodCalls < MaxMethodCalls
    /\ Cardinality(inFlight) < MaxInFlight
    /\ hook' = withErrorHandlingStart(hook, [proto |-> "Function"])
    /\ invocations' = invocations + 1
    /\ inFlight' = inFlight \cup {NextCall("withErrorHandling")}
    /\ methodCalls' = methodCalls + 1
    /\ UNCHANGED <<classifierVars, engineVars, component, options, slotInvocations,
                   onRetryLog, onMaxLog, managerOptions, retryCallbacks, countdown, state,
                   settled, openaiService, appState, awaiting, calls, apiResponse, display>>

\* the operation resolves: `return result`
withErrorHandlingResolved ==
    /\ component = "useErrorHandler"
    /\ \E call \in inFlight, value \in OperationValues :
          /\ call.method = "withErrorHandling"
          /\ inFlight' = inFlight \ {call}
          /\ settled' = [status |-> "resolved", id |-> call.id,
                         method |-> "withErrorHandling", value |-> value]
    /\ UNCHANGED <<appVars, classifierVars, engineVars, component, options,
                   invocations, slotInvocations, onRetryLog, onMaxLog,
                   managerOptions, retryCallbacks, countdown, state, methodCalls>>

\* the operation rejects: the catch calls setError(operationError), whose
\* processError returns or throws, and then returns null
withErrorHandlingRejected ==
    /\ component = "useErrorHandler"
    /\ \E call \in inFlight, error \in WithErrorHandlingFailures :
          LET processed == processErrorCall(error) IN
          /\ call.method = "withErrorHandling"
          /\ inFlight' = inFlight \ {call}
          /\ IF processed.status = "resolved"
             THEN /\ hook' = [hook EXCEPT !.error = processed.value,
                                          !.isRetrying = FALSE]
                  /\ settled' = [status |-> "resolved", id |-> call.id,
                                 method |-> "withErrorHandling",
                                 returned |-> Null, thrown |-> error]
             ELSE /\ hook' = hook
                  /\ settled' = [status |-> "rejected", id |-> call.id,
                                 method |-> "withErrorHandling",
                                 cause |-> "setError", thrown |-> error,
                                 error |-> processed.error]
    /\ UNCHANGED <<classifierVars, engineVars, component, options, invocations,
                   slotInvocations, onRetryLog, onMaxLog, managerOptions,
                   retryCallbacks, countdown, state, methodCalls, openaiService, appState,
                   awaiting, calls, apiResponse, display>>

\* actions.clearError(), when the user dismisses the error
hookClearError ==
    /\ component = "useErrorHandler"
    /\ hook.error # Null
    /\ methodCalls < MaxMethodCalls
    /\ methodCalls' = methodCalls + 1
    /\ hook' = clearError(hook)
    /\ UNCHANGED <<classifierVars, engineVars, component, options, invocations,
                   slotInvocations, onRetryLog, onMaxLog, managerOptions,
                   retryCallbacks, countdown, state, inFlight, settled, openaiService,
                   appState, awaiting, calls, apiResponse, display>>

HookNext ==
    \/ managerExecute
    \/ managerExecuteResolved
    \/ managerExecuteRejected
    \/ hookRetry
    \/ hookRetryResolved
    \/ hookRetryRejected
    \/ withErrorHandling
    \/ withErrorHandlingResolved
    \/ withErrorHandlingRejected
    \/ hookClearError

\* useErrorHandler({retryOptions}) followed by createRetryableOperation(operation)
HookInit ==
    /\ component = "useErrorHandler"
    /\ options \in HookRetryOptions
    /\ managerOptions = ConstructorOptions(RetryableOperationOptions(options))
    /\ retryCallbacks = ConstructorCallbacks(RetryableOperationOptions(options))
    /\ state = InitialState(ConstructorOptions(RetryableOperationOptions(options)))
    /\ hook = [error |-> Null, isRetrying |-> FALSE, retryCount |-> 0,
               lastOperationRef |-> [proto |-> "Function"],
               retryManagerRef |-> [proto |-> "RetryManager"]]
    /\ inFlight = {}
    /\ methodCalls = 0
    /\ settled = Pending
    /\ slotInvocations = 0
    /\ countdown = NoCountdown
    /\ display = NoDisplay
    /\ invocations = 0
    /\ onRetryLog = <<>>
    /\ onMaxLog = <<>>
    /\ config = Null
    /\ pc = "idle"
    /\ attempt = 0
    /\ lastError = Null
    /\ opLog = <<>>
    /\ delays = <<>>
    /\ outcome = Pending
    /\ input = Null
    /\ result = Pending
    /\ reclassified = Pending
    /\ openaiService = Null
    /\ appState = Null
    /\ awaiting = Null
    /\ calls = Null
    /\ apiResponse = Null

HookSpec == HookInit /\ [][HookNext]_vars

(***************************************************************************)
(* The three retry layers: executeWithRetry, withRetry and a RetryManager. *)
(***************************************************************************)
RetrySpec ==
    /\ EngineInit \/ HandlerInit \/ ManagerInit
    /\ [][EngineNext \/ HandlerNext \/ ManagerNext]_vars

(***************************************************************************)
(* The entry points together.                                              *)
(***************************************************************************)
Init ==
    \/ EngineInit
    \/ HandlerInit
    \/ ManagerInit
    \/ ClassifierInit
    \/ AppInit
    \/ HookInit
    \/ CountdownInit

Next ==
    \/ EngineNext
    \/ HandlerNext
    \/ ManagerNext
    \/ mutateSnapshot
    \/ ClassifierNext
    \/ AppNext
    \/ HookNext
    \/ CountdownNext

Spec == Init /\ [][Next]_vars

(***************************************************************************)
(* The retry policy a run is under, read from the caller's options and the *)
(* documented defaults.                                                    *)
(***************************************************************************)
PolicyMaxAttempts ==
    IF "maxAttempts" \in DOMAIN options THEN options.maxAttempts ELSE 3

PolicyBaseDelay ==
    IF "baseDelay" \in DOMAIN options THEN options.baseDelay ELSE 1000

PolicyBackoffMultiplier ==
    IF "backoffMultiplier" \in DOMAIN options THEN options.backoffMultiplier
    ELSE [num |-> 2, den |-> 1]

PolicyRetryableKinds ==
    IF "retryableErrors" \in DOMAIN options THEN options.retryableErrors
    ELSE {"NETWORK_ERROR", "API_RATE_LIMIT", "API_GENERAL_ERROR", "UNKNOWN_ERROR"}

CallbacksSupplied ==
    "onRetry" \in DOMAIN options /\ "onMaxAttemptsReached" \in DOMAIN options

RetryableUnderPolicy(e) == e.retryable /\ e.type \in PolicyRetryableKinds

\* every invocation settled so far failed with a retryable error
AllFailedRetryably ==
    \A i \in 1..Len(opLog) :
        ~opLog[i].ok /\ RetryableUnderPolicy(opLog[i].processed)

\* the onRetry calls expected after the first n failures
ExpectedOnRetry(n) == [i \in 1..n |-> <<i, opLog[i].processed>>]

\* the backoff schedule: the first delay is the base delay, each later one the
\* previous one times the multiplier
RECURSIVE Schedule(_)
Schedule(n) ==
    IF n = 0 THEN <<>>
    ELSE IF n = 1 THEN <<Num(PolicyBaseDelay)>>
    ELSE LET prev == Schedule(n - 1)
         IN  Append(prev, Rat(prev[n - 1].num * PolicyBackoffMultiplier.num,
                              prev[n - 1].den * PolicyBackoffMultiplier.den))

(***************************************************************************)
(* C1  Retry ceiling of executeWithRetry: the operation is never invoked   *)
(* more than maxAttempts times, and when every invocation fails with an    *)
(* error that is retryable under the policy it is invoked exactly          *)
(* maxAttempts times (3 by default) and the promise then rejects.          *)
(***************************************************************************)
C1_RetryCeiling ==
    /\ invocations <= PolicyMaxAttempts
    /\ (AllFailedRetryably /\ pc = "settled")
          => (invocations = PolicyMaxAttempts /\ outcome.status = "rejected")
    /\ (AllFailedRetryably /\ Len(opLog) = PolicyMaxAttempts) => pc = "settled"

C1_Witness ==
    /\ pc = "settled"
    /\ "maxAttempts" \notin DOMAIN options
    /\ AllFailedRetryably
    /\ invocations = 3
    /\ outcome.status = "rejected"

(***************************************************************************)
(* C2  Short-circuit of executeWithRetry: a failure whose classification   *)
(* is not retryable under the policy (flag false or kind outside           *)
(* retryableKinds) rejects the promise at once: nothing is invoked, slept  *)
(* or called back after it, onMaxAttemptsReached is never called, and when *)
(* it is the first failure the operation has been invoked exactly once     *)
(* with no sleep and no callback at all.                                   *)
(***************************************************************************)
C2_ShortCircuit ==
    LET k == Len(opLog) IN
    (k >= 1 /\ ~opLog[k].ok /\ ~RetryableUnderPolicy(opLog[k].processed))
       => /\ pc = "settled"
          /\ outcome.status = "rejected"
          /\ invocations = k
          /\ Len(delays) = k - 1
          /\ Len(onRetryLog) <= k - 1
          /\ onMaxLog = <<>>
          /\ k = 1 => (invocations = 1 /\ delays = <<>> /\ onRetryLog = <<>>)

C2_Witness ==
    /\ pc = "settled"
    /\ CallbacksSupplied
    /\ PolicyMaxAttempts = 3
    /\ Len(opLog) = 1
    /\ ~opLog[1].ok
    /\ opLog[1].processed.type = "API_KEY_INVALID"
    /\ invocations = 1

(***************************************************************************)
(* C3  Callback counts of executeWithRetry: when every invocation fails    *)
(* retryably, onRetry has been called once per failure that was followed   *)
(* by a retry, with attempt numbers 1, 2, ... in order and the classified  *)
(* error of that failure; onMaxAttemptsReached is called only when the     *)
(* promise settles, exactly once, after maxAttempts - 1 onRetry calls,     *)
(* with the classified error of the final failure.                         *)
(***************************************************************************)
C3_CallbackCounts ==
    (CallbacksSupplied /\ AllFailedRetryably)
       => IF pc = "settled"
          THEN /\ onRetryLog = ExpectedOnRetry(PolicyMaxAttempts - 1)
               /\ onMaxLog = <<opLog[PolicyMaxAttempts].processed>>
          ELSE /\ onRetryLog = ExpectedOnRetry(Len(opLog))
               /\ onMaxLog = <<>>

C3_Witness ==
    /\ pc = "settled"
    /\ CallbacksSupplied
    /\ AllFailedRetryably
    /\ PolicyMaxAttempts = 3
    /\ Len(onRetryLog) = 2
    /\ Len(onMaxLog) = 1

(***************************************************************************)
(* C4  Success path of executeWithRetry: when the promise resolves, the    *)
(* last invocation (the k-th) succeeded and the k - 1 before it failed     *)
(* retryably; the promise carries that invocation's value, the operation   *)
(* was invoked exactly k times, onRetry was called k - 1 times with        *)
(* attempts 1..k-1, k - 1 sleeps were made (none for k = 1) and            *)
(* onMaxAttemptsReached was never called.                                  *)
(***************************************************************************)
C4_SuccessPath ==
    outcome.status = "resolved"
       => LET k == Len(opLog) IN
          /\ k >= 1 /\ k <= PolicyMaxAttempts
          /\ opLog[k].ok
          /\ outcome.value = opLog[k].value
          /\ invocations = k
          /\ \A i \in 1..(k - 1) :
                ~opLog[i].ok /\ RetryableUnderPolicy(opLog[i].processed)
          /\ onRetryLog = IF CallbacksSupplied THEN ExpectedOnRetry(k - 1) ELSE <<>>
          /\ onMaxLog = <<>>
          /\ Len(delays) = k - 1

C4_Witness ==
    /\ outcome.status = "resolved"
    /\ CallbacksSupplied
    /\ PolicyMaxAttempts = 3
    /\ invocations = 3
    /\ Len(onRetryLog) = 2
    /\ opLog[1].processed.type = "NETWORK_ERROR"

(***************************************************************************)
(* C5  Backoff schedule of executeWithRetry: the n-th sleep lasts          *)
(* baseDelay * backoffMultiplier^(n-1) (1000, 2000, 4000 by default; 500,  *)
(* 750 for base 500 and multiplier 1.5); a sleep is requested with the     *)
(* onRetry call of the same failure, attempt n + 1 is invoked only after   *)
(* the n-th sleep has elapsed, and no sleep follows the final attempt.     *)
(***************************************************************************)
C5_BackoffSchedule ==
    /\ delays = Schedule(Len(delays))
    /\ (DOMAIN options = {"proto"} \/ DOMAIN options = {"proto", "maxAttempts"})
          => delays = SubSeq(<<Num(1000), Num(2000), Num(4000), Num(8000)>>,
                             1, Len(delays))
    /\ (PolicyBaseDelay = 500 /\ PolicyBackoffMultiplier = [num |-> 3, den |-> 2])
          => delays = SubSeq(<<Num(500), Num(750), Num(1125), Rat(3375, 2)>>,
                             1, Len(delays))
    /\ CallbacksSupplied => Len(onRetryLog) = Len(delays)
    /\ invocations = Len(delays) + (IF pc \in {"awaitDelay", "idle"} THEN 0 ELSE 1)
    /\ Len(delays) <= PolicyMaxAttempts - 1

C5_Witness ==
    /\ pc = "awaitOperation"
    /\ invocations = 4
    /\ delays = <<Num(1000), Num(2000), Num(4000)>>

(***************************************************************************)
(* C6  Single failure shape: whenever executeWithRetry, ErrorHandler's     *)
(* withRetry, or a RetryManager's execute() or retry() rejects because the *)
(* wrapped operation failed, the rejection is an EnhancedError whose type, *)
(* message, code, details and retryable flag are those of the              *)
(* classification of the failure that ended it.                            *)
(***************************************************************************)
SameClassification(e1, e2) ==
    \A k \in {"type", "message", "code", "details", "retryable"} :
        Opt(e1, k) = Opt(e2, k)

IsEnhancedFailureOf(rejection, thrown) ==
    /\ IsObject(rejection)
    /\ rejection.proto = "EnhancedError"
    /\ SameClassification(rejection, processError(thrown))

C7_AtMostOneInFlight == Cardinality(inFlight) <= 1

(***************************************************************************)
(* C8  No overlapping retries: at most one retry() of a RetryManager has   *)
(* its operation invocation unsettled at any time, whatever execute() and  *)
(* reset() calls come in between.                                          *)
(***************************************************************************)
C8_NoOverlappingRetries ==
    Cardinality({call \in inFlight : call.method = "retry"}) <= 1

(***************************************************************************)
(* C9  canRetry() is true exactly when lastError is set, attempt is below  *)
(* the policy's maxAttempts, lastError is retryable with a kind in the     *)
(* policy's retryable kinds, and no retry is in progress; so it is false   *)
(* before any call has settled, after a non-retryable failure and once     *)
(* attempt equals maxAttempts.                                             *)
(***************************************************************************)
C9_CanRetry ==
    /\ canRetry <=> /\ state.lastError # Null
                    /\ state.attempt < PolicyMaxAttempts
                    /\ state.lastError.retryable
                    /\ state.lastError.type \in PolicyRetryableKinds
                    /\ ~state.isRetrying
    /\ settled = Pending => ~canRetry
    /\ (state.lastError # Null /\ ~RetryableUnderPolicy(state.lastError)) => ~canRetry
    /\ state.attempt = PolicyMaxAttempts => ~canRetry

C9_Witness ==
    /\ canRetry
    /\ settled.status = "rejected"
    /\ settled.method = "execute"
    /\ state.attempt = 1
    /\ inFlight = {}

(***************************************************************************)
(* C10  Initial state of a RetryManager: right after construction          *)
(* getState() is {attempt: 0, maxAttempts: policy.maxAttempts, lastError:  *)
(* null, isRetrying: false, nextRetryDelay: policy.baseDelay}, for every   *)
(* maxAttempts >= 1 and baseDelay >= 0.                                    *)
(***************************************************************************)
C10_InitialState ==
    methodCalls = 0
       => getState = [attempt |-> 0,
                      maxAttempts |-> PolicyMaxAttempts,
                      lastError |-> Null,
                      isRetrying |-> FALSE,
                      nextRetryDelay |-> Num(PolicyBaseDelay)]

(***************************************************************************)
(* Steps of a RetryManager, told apart by what they do to the calls        *)
(* awaiting the operation.                                                 *)
(***************************************************************************)
ExecuteCalled == \E call \in inFlight' \ inFlight : call.method = "execute"

ExecuteSettled == \E call \in inFlight \ inFlight' : call.method = "execute"

RetryAccepted == \E call \in inFlight' \ inFlight : call.method = "retry"

RetrySettled == \E call \in inFlight \ inFlight' : call.method = "retry"

\* the call that settled last is the latest method call made on the manager
LatestCallSettled(method, status) ==
    /\ settled.status = status
    /\ settled.method = method
    /\ settled.id = methodCalls

C12_RejectedRetry ==
    [][(retry /\ ~canRetry)
          => /\ settled'.status = "rejected"
             /\ settled'.method = "retry"
             /\ settled'.id = methodCalls'
             /\ settled'.error = CannotRetryError
             /\ invocations' = invocations
             /\ inFlight' = inFlight
             /\ onRetryLog' = onRetryLog
             /\ onMaxLog' = onMaxLog
             /\ getState' = getState]_vars

C12_Witness ==
    /\ settled.status = "rejected"
    /\ settled.method = "retry"
    /\ settled.cause = "canRetry"
    /\ settled.id = methodCalls
    /\ state.isRetrying
    /\ state.lastError # Null
    /\ RetryableUnderPolicy(state.lastError)
    /\ state.attempt < PolicyMaxAttempts
    /\ Cardinality(inFlight) = 1

(***************************************************************************)
(* C13  A successful retry(): accepting the call increases attempt by      *)
(* exactly 1 and its settlement leaves attempt alone; when the operation   *)
(* succeeds, retry() resolves with the operation's value and leaves        *)
(* lastError = null and isRetrying = false, so canRetry() is false         *)
(* afterwards; the first retry after a failed execute() ends with          *)
(* attempt = 2.                                                            *)
(***************************************************************************)
C13_RetrySuccess ==
    /\ [](LatestCallSettled("retry", "resolved")
             => /\ settled.value \in OperationValues
                /\ state.lastError = Null
                /\ ~state.isRetrying
                /\ ~canRetry
                /\ methodCalls = 2 => state.attempt = 2)
    /\ [][/\ RetryAccepted
             => /\ canRetry
                /\ state'.attempt = state.attempt + 1
          /\ RetrySettled
             => /\ state'.attempt = state.attempt
                /\ settled'.method = "retry"
                /\ settled'.status = "resolved"
                      => /\ state'.lastError = Null
                         /\ ~state'.isRetrying]_vars

C13_Witness ==
    /\ LatestCallSettled("retry", "resolved")
    /\ methodCalls = 2
    /\ invocations = 2
    /\ state.attempt = 2
    /\ state.lastError = Null
    /\ settled.value = "letter"

(***************************************************************************)
(* C14  reset() restores the initial snapshot: after any sequence of       *)
(* execute() and retry() calls that have all settled, reset() makes        *)
(* getState() equal to the state right after construction, that is         *)
(* {attempt: 0, maxAttempts: policy.maxAttempts, lastError: null,          *)
(* isRetrying: false, nextRetryDelay: policy.baseDelay}.                   *)
(***************************************************************************)
C14_ResetRestoresInitial ==
    [][(reset /\ inFlight = {} /\ invocations >= 1)
          => getState' = [attempt |-> 0,
                          maxAttempts |-> PolicyMaxAttempts,
                          lastError |-> Null,
                          isRetrying |-> FALSE,
                          nextRetryDelay |-> Num(PolicyBaseDelay)]]_vars

(***************************************************************************)
(* C15  isRetrying is true only while an explicit retry() is in flight:    *)
(* in every state of a RetryManager with isRetrying = true some retry()    *)
(* call is still awaiting the operation, also after an onRetry callback    *)
(* that throws.                                                            *)
(***************************************************************************)
C15_IsRetryingOnlyInFlight ==
    state.isRetrying => \E call \in inFlight : call.method = "retry"

(***************************************************************************)
(* C16  State machine of a RetryManager.  RETRYING is entered only by a    *)
(* retry() called in FAILED_RETRYABLE; in IDLE, SUCCEEDED and              *)
(* FAILED_TERMINAL (last error not retryable under the policy, or          *)
(* attempt = maxAttempts) retry() is rejected, so FAILED_TERMINAL is left  *)
(* only by execute() or reset() and the operation is invoked from it only  *)
(* by execute(); reset() is enabled in every state and leads to IDLE.      *)
(***************************************************************************)
Idle == state.attempt = 0 /\ state.lastError = Null /\ ~state.isRetrying

Retrying == state.isRetrying

Succeeded ==
    /\ inFlight = {}
    /\ ~state.isRetrying
    /\ state.attempt >= 1
    /\ state.lastError = Null

FailedRetryable ==
    /\ ~state.isRetrying
    /\ state.lastError # Null
    /\ RetryableUnderPolicy(state.lastError)
    /\ state.attempt < PolicyMaxAttempts

FailedTerminal ==
    /\ inFlight = {}
    /\ ~state.isRetrying
    /\ state.lastError # Null
    /\ ~RetryableUnderPolicy(state.lastError) \/ state.attempt = PolicyMaxAttempts

C16_StateMachine ==
    /\ [](methodCalls < MaxMethodCalls => ENABLED reset)
    /\ [][/\ (~Retrying /\ Retrying')
             => /\ FailedRetryable
                /\ retry
                /\ state'.attempt = state.attempt + 1
          /\ (retry /\ (Idle \/ Succeeded \/ FailedTerminal))
             => /\ settled'.status = "rejected"
                /\ settled'.error = CannotRetryError
                /\ invocations' = invocations
                /\ state' = state
          /\ FailedTerminal
             => /\ FailedTerminal' \/ Idle' \/ ExecuteCalled
                /\ invocations' # invocations => ExecuteCalled
          /\ reset => Idle']_vars

C16_Witness ==
    /\ FailedTerminal
    /\ RetryableUnderPolicy(state.lastError)
    /\ state.attempt = PolicyMaxAttempts
    /\ PolicyMaxAttempts = 3
    /\ settled.status = "rejected"
    /\ settled.method = "retry"
    /\ settled.cause = "canRetry"
    /\ invocations = 3

(***************************************************************************)
(* C17  Delay asymmetry: an accepted retry() of a RetryManager invokes the *)
(* operation in the same step as its onRetry call, whatever nextRetryDelay *)
(* holds, and a RetryManager never sleeps; executeWithRetry makes every    *)
(* invocation after the first only once the sleep requested after the      *)
(* previous failure has elapsed.                                           *)
(***************************************************************************)
C17_DelayAsymmetry ==
    /\ [](component = "RetryManager" => (delays = <<>> /\ pc = "idle"))
    /\ [][/\ (retry /\ canRetry /\ settled' = settled)
             => /\ RetryAccepted
                /\ invocations' = invocations + 1
                /\ "onRetry" \in DOMAIN retryCallbacks
                      => Len(onRetryLog') = Len(onRetryLog) + 1
          /\ (component = "RetryService" /\ invocations' # invocations
              /\ invocations >= 1)
             => /\ pc = "awaitDelay"
                /\ Len(delays) = invocations
          /\ (component = "RetryService" /\ pc = "awaitOperation")
             => invocations' = invocations]_vars

C17_Witness ==
    /\ component = "RetryManager"
    /\ \E call \in inFlight : call.method = "retry" /\ call.id = methodCalls
    /\ state.attempt = 3
    /\ state.nextRetryDelay = Num(4000)
    /\ invocations = 3
    /\ Len(onRetryLog) = 2
    /\ delays = <<>>

(***************************************************************************)
(* C18  getState() returns a snapshot: no write a caller makes to the      *)
(* returned object, its lastError included, changes the manager's state or *)
(* what canRetry() and getState() return afterwards.                       *)
(***************************************************************************)
C18_SnapshotIsolated ==
    [][mutateSnapshot
          => /\ state' = state
             /\ getState' = getState
             /\ canRetry' = canRetry]_vars

(***************************************************************************)
(* C19  Status-code mapping of processError on {success: false, error,     *)
(* statusCode?}: 401 gives API_KEY_INVALID when the message mentions the   *)
(* key and API_KEY_MISSING otherwise, not retryable; 429 gives             *)
(* API_RATE_LIMIT, retryable; 400 gives API_CONTENT_POLICY when the        *)
(* message mentions policy and VALIDATION_ERROR otherwise, not retryable;  *)
(* 0 and 408 give NETWORK_ERROR, retryable; any other or missing code      *)
(* gives API_GENERAL_ERROR, retryable.                                     *)
(***************************************************************************)
Mentions(message, word) == \E i \in 1..Len(message) : message[i] = word

\* <<kind, retryable>> the mapping assigns to a response
StatusCodeMapping(response) ==
    LET code == Opt(response, "statusCode")
        message == IF "error" \in DOMAIN response THEN response.error ELSE <<>>
    IN  CASE code = {401} ->
                 <<IF Mentions(message, "key")
                   THEN "API_KEY_INVALID" ELSE "API_KEY_MISSING", FALSE>>
          [] code = {429} -> <<"API_RATE_LIMIT", TRUE>>
          [] code = {400} ->
                 <<IF Mentions(message, "policy")
                   THEN "API_CONTENT_POLICY" ELSE "VALIDATION_ERROR", FALSE>>
          [] code \in {{0}, {408}} -> <<"NETWORK_ERROR", TRUE>>
          [] OTHER -> <<"API_GENERAL_ERROR", TRUE>>

\* {success: false, error?: string, statusCode?: number}
IsApiFailureResponse(v) ==
    /\ IsObject(v)
    /\ v.proto = "Object"
    /\ "success" \in DOMAIN v
    /\ ~v.success
    /\ "untyped" \notin DOMAIN v

C19_StatusCodeMapping ==
    (component = "processError" /\ result.status = "resolved"
     /\ IsApiFailureResponse(input))
       => <<result.value.type, result.value.retryable>> = StatusCodeMapping(input)

(***************************************************************************)
(* C20  processError is total: for every input (AppError-shaped object,    *)
(* EnhancedError, API-response-shaped object with any field values, native *)
(* Error, string, number, null, undefined, arbitrary object) the call      *)
(* returns an AppError with type, message and retryable set, and never     *)
(* throws.                                                                 *)
(***************************************************************************)
C20_ClassifierTotal ==
    (component = "processError" /\ result.status # "pending")
       => /\ result.status = "resolved"
          /\ isAppError(result.value)
          /\ result.value.type \in ErrorType
          /\ result.value.retryable \in BOOLEAN

(***************************************************************************)
(* C21  retryable is a function of kind and code: any two errors that      *)
(* processError returns with the same type and the same code have the same *)
(* retryable flag, and every returned error of type API_KEY_MISSING,       *)
(* API_KEY_INVALID, API_CONTENT_POLICY or VALIDATION_ERROR has             *)
(* retryable = false.                                                      *)
(***************************************************************************)
NonRetryableKinds ==
    {"API_KEY_MISSING", "API_KEY_INVALID", "API_CONTENT_POLICY", "VALIDATION_ERROR"}

KindAndCode(e) == <<e.type, Opt(e, "code")>>

C21_RetryableByKindAndCode ==
    (component = "processError" /\ result.status = "resolved")
       => /\ result.value.type \in NonRetryableKinds => ~result.value.retryable
          /\ \A other \in ClassifierInputs :
                LET r == processErrorCall(other)
                IN  (r.status = "resolved"
                     /\ KindAndCode(r.value) = KindAndCode(result.value))
                       => r.value.retryable = result.value.retryable

(***************************************************************************)
(* C22  Round trip and idempotence of processError: for an AppError e,     *)
(* processError(new EnhancedError(e)) has the type, message, code, details *)
(* and retryable of e; an AppError-shaped input is returned as it is; and  *)
(* processError(processError(x)) = processError(x) for every input x.      *)
(***************************************************************************)
C22_RoundTrip ==
    component = "processError" =>
       /\ (result.status = "resolved" /\ isAppError(input)
           /\ ~InstanceOfEnhancedError(input))
             => result.value = input
       /\ (reclassified.status = "resolved" /\ reclassified.of = "AppError")
             => reclassified.value = result.value
       /\ (reclassified.status = "resolved" /\ reclassified.of = "EnhancedError"
           /\ ~HasUntypedMessage(input))
             => SameClassification(reclassified.value, result.value)

\* a native Error was classified, with its message as the details, wrapped
\* in an EnhancedError and classified again
C22_Witness ==
    /\ component = "processError"
    /\ InstanceOfError(input)
    /\ ~InstanceOfEnhancedError(input)
    /\ reclassified.status = "resolved"
    /\ reclassified.of = "EnhancedError"
    /\ reclassified.value.type = "NETWORK_ERROR"
    /\ "details" \in DOMAIN reclassified.value

(***************************************************************************)
(* C23  Missing credential: while no API key is configured,                *)
(* generateCoverLetter never calls the client, and the response it returns *)
(* becomes, through OpenAIService.responseToAppError and through           *)
(* processError, an error of type API_KEY_MISSING with retryable = false.  *)
(***************************************************************************)
C23_MissingCredential ==
    (component = "App" /\ ~isConfigured(openaiService)
     /\ calls.generateCoverLetter > 0)
       => /\ calls.create = 0
          /\ responseToAppError(apiResponse).type = "API_KEY_MISSING"
          /\ ~responseToAppError(apiResponse).retryable
          /\ processError(apiResponse).type = "API_KEY_MISSING"
          /\ ~processError(apiResponse).retryable
          /\ hook.error # Null
                => hook.error.type = "API_KEY_MISSING" /\ ~hook.error.retryable

(***************************************************************************)
(* C24  Generation is wrapped in retry: a submit whose generation fails    *)
(* with an error that is retryable under the default policy invokes        *)
(* generateCoverLetter again without any user action, up to                *)
(* DefaultMaxAttempts invocations per submit; so a submit that ends with   *)
(* a retryable error shown has made DefaultMaxAttempts invocations, and no *)
(* submit makes more.                                                      *)
(***************************************************************************)
SubmitEnded ==
    /\ component = "App"
    /\ calls.sinceSubmit > 0
    /\ calls.retriesSinceSubmit = 0
    /\ awaiting = Null

C24_GenerationRetried ==
    SubmitEnded
       => /\ calls.sinceSubmit <= DefaultMaxAttempts
          /\ StateCanRetry(hook) => calls.sinceSubmit = DefaultMaxAttempts

(***************************************************************************)
(* C25  Manual retry re-runs the failed operation: when an operation run   *)
(* through withErrorHandling has failed with a retryable error (canRetry   *)
(* is true), the user's retry invokes generateCoverLetter again, and when  *)
(* that invocation succeeds the error is cleared.                          *)
(***************************************************************************)
RetryClicked ==
    /\ component = "App"
    /\ StateCanRetry(hook)
    /\ calls'.retriesSinceSubmit = calls.retriesSinceSubmit + 1

RetrySucceeded ==
    /\ component = "App"
    /\ awaiting # Null
    /\ awaiting.caller = "retry"
    /\ awaiting' = Null
    /\ apiResponse'.success
    /\ apiResponse'.data # <<>>

C25_ManualRetry ==
    [][/\ RetryClicked => calls'.generateCoverLetter = calls.generateCoverLetter + 1
       /\ RetrySucceeded => hook'.error = Null]_vars

(***************************************************************************)
(* C26  onRetry of a RetryManager: a retry() that passes canRetry() calls  *)
(* onRetry exactly once, before the operation is invoked, with the attempt *)
(* number already incremented (2 for the first retry) and the lastError of *)
(* the previous failure; execute(), reset(), a rejected retry() and the    *)
(* settlements never call onRetry.                                         *)
(***************************************************************************)
\* the step is a call of retry()
RetryCalled ==
    /\ methodCalls' = methodCalls + 1
    /\ \/ RetryAccepted
       \/ settled' # settled /\ settled'.method = "retry"

C26_OnRetryProtocol ==
    [][component = "RetryManager" =>
          IF RetryCalled /\ canRetry /\ "onRetry" \in DOMAIN retryCallbacks
          THEN /\ state'.attempt = state.attempt + 1
               /\ onRetryLog' = Append(onRetryLog, <<state'.attempt, state.lastError>>)
               /\ invocations' # invocations <=> RetryAccepted
          ELSE onRetryLog' = onRetryLog]_vars

\* the first retry after a failed execute() has called onRetry(2, lastError)
\* and its operation is still running
C26_Witness ==
    /\ component = "RetryManager"
    /\ methodCalls = 2
    /\ invocations = 2
    /\ \E call \in inFlight : call.method = "retry"
    /\ state.lastError = NetworkFailed
    /\ onRetryLog = <<<<2, NetworkFailed>>>>

(***************************************************************************)
(* C27  onMaxAttemptsReached signals exhaustion only: in executeWithRetry  *)
(* and in the RetryManager it is called only with an error that is         *)
(* retryable under the policy (error.retryable and its type among the      *)
(* retryable kinds), at attempt = maxAttempts; a failure that is not       *)
(* retryable never triggers it, also not on the last allowed attempt.      *)
(***************************************************************************)
\* the attempt counter of the component under way
CurrentAttempt == IF component = "RetryManager" THEN state.attempt ELSE attempt

C27_ExhaustionOnly ==
    [][onMaxLog' # onMaxLog
          => /\ Len(onMaxLog') = Len(onMaxLog) + 1
             /\ RetryableUnderPolicy(onMaxLog'[Len(onMaxLog')])
             /\ CurrentAttempt = PolicyMaxAttempts]_vars

(***************************************************************************)
(* C28  Exhaustion of a RetryManager is always signalled: whenever a call  *)
(* settles with attempt = maxAttempts and a lastError that is retryable    *)
(* under the policy, that settlement has called onMaxAttemptsReached once  *)
(* with this error -- also for maxAttempts = 1, where the failing attempt  *)
(* is the execute() itself.                                                *)
(***************************************************************************)
SettlesExhausted ==
    /\ component = "RetryManager"
    /\ ExecuteSettled \/ RetrySettled
    /\ settled'.status = "rejected"
    /\ state'.attempt = PolicyMaxAttempts
    /\ RetryableUnderPolicy(state'.lastError)

C28_ExhaustionSignalled ==
    [][(SettlesExhausted /\ "onMaxAttemptsReached" \in DOMAIN retryCallbacks)
          => onMaxLog' = Append(onMaxLog, state'.lastError)]_vars

(***************************************************************************)
(* C29  nextRetryDelay describes the next retry: in every state of a       *)
(* RetryManager with attempt = n >= 1, nextRetryDelay is                   *)
(* baseDelay * backoffMultiplier^(n-1) of the policy, after any sequence   *)
(* of execute(), retry() and reset() calls.                                *)
(***************************************************************************)
C29_NextRetryDelay ==
    (component = "RetryManager" /\ state.attempt >= 1)
       => state.nextRetryDelay =
             RatTimes(PolicyBaseDelay,
                      MathPow(PolicyBackoffMultiplier, state.attempt - 1))

(***************************************************************************)
(* C30  Attempt bound of a RetryManager: in every state                    *)
(* 0 <= attempt <= maxAttempts, under any interleaving of execute(),       *)
(* retry() and reset(); and between one execute() and the next execute()   *)
(* or reset() the operation is invoked at most maxAttempts times.          *)
(***************************************************************************)
C30_AttemptBound ==
    component = "RetryManager"
       => /\ state.attempt \in 0..PolicyMaxAttempts
          /\ slotInvocations <= PolicyMaxAttempts

\* the last allowed retry was made while an earlier call was still running
C30_Witness ==
    /\ component = "RetryManager"
    /\ PolicyMaxAttempts = 3
    /\ state.attempt = 3
    /\ slotInvocations = 3
    /\ Cardinality(inFlight) = 2

(***************************************************************************)
(* C31  reset() isolates abandoned attempts: when an execute() or retry()  *)
(* started before a reset() settles after it, the settlement does not      *)
(* change the state of the RetryManager -- getState() stays the initial    *)
(* snapshot and canRetry() stays false until the next execute(), so        *)
(* lastError # null implies attempt >= 1.                                  *)
(*                                                                         *)
(* attempt is 0 only from construction or reset() to the next execute()    *)
(* (retry() is rejected while lastError is null), so a call that settles   *)
(* at attempt 0 was started before the reset().                            *)
(***************************************************************************)
StaleSettled ==
    /\ component = "RetryManager"
    /\ state.attempt = 0
    /\ state.lastError = Null
    /\ ExecuteSettled \/ RetrySettled

C31_ResetIsolates ==
    [][StaleSettled
          => /\ getState' = getState
             /\ ~canRetry'
             /\ (state'.lastError # Null => state'.attempt >= 1)]_vars

(***************************************************************************)
(* C32  The two stateless engines agree: for the same policy and the same  *)
(* sequence of operation outcomes, ErrorHandler.withRetry and              *)
(* executeWithRetry without callbacks invoke the operation the same number *)
(* of times, sleep the same delays and end with the same result or the     *)
(* same EnhancedError.  Both are compared, wherever a run waits for the    *)
(* operation or has ended, with executeWithRetry as a function of the      *)
(* policy and of the outcomes seen so far.                                 *)
(***************************************************************************)
EngineWithoutCallbacks ==
    /\ component \in {"RetryService", "ErrorHandler"}
    /\ "onRetry" \notin DOMAIN options
    /\ "onMaxAttemptsReached" \notin DOMAIN options
    /\ pc \in {"awaitOperation", "settled"}

C32_EnginesAgree ==
    EngineWithoutCallbacks
       => [invocations |-> invocations, delays |-> delays, outcome |-> outcome]
             = ExecuteWithRetryFrom(config, opLog, 1, Null, <<>>)

\* withRetry gave up after sleeping twice
C32_Witness ==
    /\ component = "ErrorHandler"
    /\ pc = "settled"
    /\ Len(delays) = 2
    /\ invocations = 3
    /\ outcome.status = "rejected"

(***************************************************************************)
(* C33  The retry affordance follows the manager: for an operation wrapped *)
(* with createRetryableOperation, whenever the hook's state.canRetry is    *)
(* true, canRetry() of the underlying RetryManager is true -- so the       *)
(* affordance is not offered once attempt = maxAttempts or after the       *)
(* manager has rejected a retry().                                         *)
(***************************************************************************)
C33_AffordanceFollowsManager ==
    (/\ component = "useErrorHandler"
     /\ hook.retryManagerRef # Null
     /\ StateCanRetry(hook)) => canRetry

(***************************************************************************)
(* C34  withErrorHandling never rejects: it invokes the operation exactly  *)
(* once; on success it returns the operation's value and does not set an   *)
(* error; on failure it returns null and sets error to the classification  *)
(* of the failure.  clearError() always resets error to null, isRetrying   *)
(* to false, retryCount to 0 and canRetry to false.                        *)
(***************************************************************************)
WithErrorHandlingCalled ==
    \E call \in inFlight' \ inFlight : call.method = "withErrorHandling"

WithErrorHandlingSettled ==
    \E call \in inFlight \ inFlight' : call.method = "withErrorHandling"

C34_WithErrorHandling ==
    [][/\ WithErrorHandlingCalled => invocations' = invocations + 1
       /\ WithErrorHandlingSettled
             => /\ invocations' = invocations
                /\ settled'.status = "resolved"
                /\ "value" \in DOMAIN settled'
                      => (settled'.value \in OperationValues /\ hook' = hook)
                /\ "thrown" \in DOMAIN settled'
                      => /\ settled'.returned = Null
                         /\ hook'.error = processError(settled'.thrown)
       /\ hookClearError
             => /\ hook'.error = Null
                /\ ~hook'.isRetrying
                /\ hook'.retryCount = 0
                /\ ~StateCanRetry(hook')]_vars

(***************************************************************************)
(* C35  The retry countdown terminates and is display-only:                *)
(* getRetryCountdown started in any state resolves after finitely many     *)
(* ticks; it calls onTick with non-increasing remaining values, the last   *)
(* of which is 0; it never modifies the RetryState; and it neither enables *)
(* nor blocks retry(): canRetry() is the same before and after each of its *)
(* steps, and a retry() during a countdown is accepted exactly when        *)
(* canRetry() holds.                                                       *)
(***************************************************************************)
CountdownStep == countdown' # countdown

C35_Countdown ==
    /\ [][/\ CountdownStep => (state' = state /\ canRetry' = canRetry)
          /\ (CountdownStep /\ countdown.status = "running")
             => /\ \A old \in countdown.onTick, new \in countdown'.onTick :
                      RatLeq(new, old)
                /\ countdown'.status = "resolved" => countdown'.onTick = {Num(0)}
          /\ (component = "RetryCountdown" /\ retry)
             => (RetryAccepted <=> canRetry)]_vars
    /\ (countdown.status = "running") ~> (countdown.status = "resolved")

\* a countdown of 225 ms, the delay of the second attempt, has resolved on
\* its third tick while the retry it announced is still running
C35_Witness ==
    /\ component = "RetryCountdown"
    /\ countdown.status = "resolved"
    /\ countdown.delay = [num |-> 225, den |-> 1]
    /\ countdown.elapsed = 300
    /\ state.isRetrying
    /\ state.attempt = 3

(***************************************************************************)
(* C36  Termination of executeWithRetry: for every policy with             *)
(* maxAttempts >= 1 and finite delays, when every invocation of the        *)
(* operation settles and every sleep completes, a call of executeWithRetry *)
(* settles; it has then invoked the operation at most maxAttempts times    *)
(* and slept at most maxAttempts - 1 times, and at every moment exactly    *)
(* one attempt is in flight while it awaits the operation and none         *)
(* otherwise.                                                              *)
(***************************************************************************)
AttemptsInFlight == invocations - Len(opLog)

C36_EngineTerminates ==
    /\ [](component = "RetryService"
             => /\ invocations <= PolicyMaxAttempts
                /\ Len(delays) <= PolicyMaxAttempts - 1
                /\ AttemptsInFlight = IF pc = "awaitOperation" THEN 1 ELSE 0)
    /\ (component = "RetryService" /\ pc # "idle") ~> (pc = "settled")

\* the call settled on its last attempt, after every sleep the policy allows
C36_Witness ==
    /\ component = "RetryService"
    /\ pc = "settled"
    /\ PolicyMaxAttempts = 4
    /\ invocations = 4
    /\ Len(delays) = 3
    /\ AttemptsInFlight = 0
    /\ outcome.status = "resolved"

\* C37: at most one PDF export is in flight.  isDownloading is true exactly
\* while a call of onDownload is unsettled and there is never more than one;
\* a click on the download button while isDownloading is true neither calls
\* onDownload nor pdfService.generatePDF; and when the export settles, with
\* or without an error, isDownloading is false again.
DownloadClicked == display'.clicks = display.clicks + 1

GenerationRequestEnded ==
    /\ component = "App"
    /\ awaiting' = Null
    /\ \/ awaiting # Null /\ awaiting.caller = "withErrorHandling"
       \/ /\ awaiting = Null
          /\ calls'.generateCoverLetter = calls.generateCoverLetter + 1
          /\ calls'.retriesSinceSubmit = 0

GenerationFailed ==
    /\ GenerationRequestEnded
    /\ ~apiResponse'.success \/ apiResponse'.data = <<>>

C38_FailurePreservesUserData ==
    [][GenerationFailed =>
          /\ appState'.generatedLetters = appState.generatedLetters
          /\ appState'.selectedLetterId = appState.selectedLetterId
          /\ appState'.jobDescription = calls'.formData.jobDescription
          /\ awaiting # Null => appState'.jobDescription = appState.jobDescription
          /\ ~appState'.isLoading
          /\ hook'.error # Null
          /\ display' = display]_vars

\* a regeneration of the first letter has just failed at the client: the
\* letter is still there and selected, the form field is the submitted one
C38_Witness ==
    /\ component = "App"
    /\ awaiting = Null
    /\ calls.create = 2
    /\ calls.sinceSubmit = 1
    /\ calls.retriesSinceSubmit = 0
    /\ "additionalContext" \in DOMAIN calls.formData
    /\ ~apiResponse.success
    /\ hook.error # Null
    /\ ~appState.isLoading
    /\ Len(appState.generatedLetters) = 1
    /\ appState.selectedLetterId = LetterId(1)
    /\ appState.jobDescription = <<"Test", "job">>

\* C39: for an API-response-shaped failure that carries a statusCode, 0
\* included, the code of the classified error is that statusCode; the code
\* is 500 only when the response carries none.
C39_CodeIsStatusCode ==
    (component = "processError" /\ result.status = "resolved"
     /\ IsApiFailureResponse(input))
       => Opt(result.value, "code") =
             IF "statusCode" \in DOMAIN input THEN {input.statusCode} ELSE {500}

====
